---- MODULE Spec2Model ----
(***************************************************************************)
(* A model of nion.utils Stream.py, Model.py and Color.py: StreamTask, the  *)
(* timed DebounceStream and SampleStream, ValueChangeStream and its         *)
(* reactor, the synchronous ValueStream, MapStream, CombineLatestStream,    *)
(* OptionalStream and PropertyChangedEventStream, the weakly held listener  *)
(* of a derived stream, re-entrant delivery on a ValueStream, a diamond of  *)
(* streams, PropertyModel, StreamValueModel, FuncStreamValueModel and the   *)
(* Color conversions.                                                       *)
(* Each component has its own variables, its own                            *)
(* initial condition (the state right after the constructor returned) and   *)
(* one action per method, callback or event-loop step.  A component's       *)
(* specification runs that component alone and keeps the others frozen.     *)
(***************************************************************************)
EXTENDS Integers, Sequences, FiniteSets

\* ------------------------------------------------------------------ bounds
MaxTasks == 3        \* tasks one StreamTask may create in a run
NumValues == 3       \* stream payloads are 1..NumValues
Period == 2          \* the period of the DebounceStream, in clock ticks
MaxTime == 5         \* the clock stops advancing here
MaxOps == 5          \* operations on a ValueChangeStream in a run
MaxFires == 3        \* upstream fires delivered to a StreamValueModel in a run
NumFuncs == 2        \* value functions are 1..NumFuncs
MaxEvals == 3        \* evaluation tasks a FuncStreamValueModel may create in a run
MaxGraphOps == 3     \* operations on the synchronous stream graph in a run
NumObjects == 2      \* observable source objects are 1..NumObjects
MaxCellOps == 3      \* operations on a PropertyModel in a run
MaxReactorOps == 4   \* operations on the stream a reactor listens to in a run
MaxWeakOps == 4      \* fires of the upstream of a derived stream in a run
MaxEventOps == 2     \* outermost assignments to a re-entered ValueStream in a run
MaxDiamondOps == 4   \* assignments to the ValueStream of the diamond in a run
NumReactors == 3     \* ValueChangeStreamReactors on one event loop
MaxHexLen == 6       \* digits after the # of a hex color
MaxParams == 5       \* parameters of a color function
MaxColorOps == 2     \* conversions chained on a Color in a run

\* ---------------------------------------------------------------- state
VARIABLES
  \* a StreamTask driven by its owner
  t_task, t_err,
  \* a DebounceStream and its input ValueStream
  d_now, d_input, d_value_holder, d_debounce_task, d_alive, d_err, d_fired, d_burst,
  d_seen,
  \* a ValueChangeStream and its input ValueStream
  v_input, v_init, v_stream, v_ops,
  \* a StreamValueModel and the stream it mirrors
  m_kind, m_cmp, m_source, m_value, m_open, m_nfires, m_last_fired,
  m_listening, m_refs, m_notes, m_after,
  \* a FuncStreamValueModel and the event loop it runs on
  f_task, f_task_to_complete, f_tasks, f_ready, f_value, f_open, f_landed,
  \* ValueStreams A and B, MapStream(A), CombineLatestStream([A, B]) and a
  \* PropertyChangedEventStream over one observed object
  g_a, g_b, g_built, g_assigned, g_map, g_values, g_combine, g_prop, g_pvalue,
  g_fired, g_nops,
  \* a SampleStream, its input ValueStream and the clock of its event loop
  s_now, s_input, s_sample_value, s_sample_task, s_alive, s_fired, s_seen,
  \* a PropertyChangedEventStream over a stream of source objects
  p_cmp, p_props, p_source, p_object, p_listeners, p_value, p_fired, p_op,
  \* a PropertyModel
  c_cmp, c_value, c_callback, c_trace, c_old, c_assigned, c_nops,
  \* a ValueChangeStreamReactor, its ValueChangeStream and its consumer
  r_input, r_stream, r_built, r_queue, r_out, r_at, r_nops,
  \* a derived stream and the weak listener it registered upstream
  w_kind, w_input, w_alive, w_listening, w_state, w_sent, w_fired, w_built,
  w_err, w_after,
  \* a ValueStream with a listener that assigns to it during delivery
  e_value, e_order, e_react, e_got, e_nops,
  \* a Color and the latest conversion called on one
  k_color, k_last, k_nops,
  \* the diamond of A, MapStream(A) and CombineLatestStream([A, MapStream(A)])
  x_a, x_map, x_values, x_fired, x_nops,
  \* the lifetime of the reactors and their consumer tasks
  l_reactors, l_tasks

tvars == <<t_task, t_err>>
dvars == <<d_now, d_input, d_value_holder, d_debounce_task, d_alive, d_err,
           d_fired, d_burst, d_seen>>
vvars == <<v_input, v_init, v_stream, v_ops>>
mvars == <<m_kind, m_cmp, m_source, m_value, m_open, m_nfires, m_last_fired,
           m_listening, m_refs, m_notes, m_after>>
fvars == <<f_task, f_task_to_complete, f_tasks, f_ready, f_value, f_open, f_landed>>
gvars == <<g_a, g_b, g_built, g_assigned, g_map, g_values, g_combine, g_prop,
           g_pvalue, g_fired, g_nops>>
svars == <<s_now, s_input, s_sample_value, s_sample_task, s_alive, s_fired, s_seen>>
pvars == <<p_cmp, p_props, p_source, p_object, p_listeners, p_value, p_fired,
           p_op>>
cvars == <<c_cmp, c_value, c_callback, c_trace, c_old, c_assigned, c_nops>>
rvars == <<r_input, r_stream, r_built, r_queue, r_out, r_at, r_nops>>
wvars == <<w_kind, w_input, w_alive, w_listening, w_state, w_sent, w_fired,
           w_built, w_err, w_after>>
evars == <<e_value, e_order, e_react, e_got, e_nops>>
kvars == <<k_color, k_last, k_nops>>
xvars == <<x_a, x_map, x_values, x_fired, x_nops>>
lvars == <<l_reactors, l_tasks>>
vars == <<tvars, dvars, vvars, mvars, fvars, gvars, svars, pvars, cvars, rvars, wvars, evars, kvars, xvars, lvars>>

\* what an action of one component leaves alone
notT == <<dvars, vvars, mvars, fvars, gvars, svars, pvars, cvars, rvars, wvars, evars, kvars, xvars, lvars>>
notD == <<tvars, vvars, mvars, fvars, gvars, svars, pvars, cvars, rvars, wvars, evars, kvars, xvars, lvars>>
notV == <<tvars, dvars, mvars, fvars, gvars, svars, pvars, cvars, rvars, wvars, evars, kvars, xvars, lvars>>
notM == <<tvars, dvars, vvars, fvars, gvars, svars, pvars, cvars, rvars, wvars, evars, kvars, xvars, lvars>>
notF == <<tvars, dvars, vvars, mvars, gvars, svars, pvars, cvars, rvars, wvars, evars, kvars, xvars, lvars>>
notG == <<tvars, dvars, vvars, mvars, fvars, svars, pvars, cvars, rvars, wvars, evars, kvars, xvars, lvars>>
notS == <<tvars, dvars, vvars, mvars, fvars, gvars, pvars, cvars, rvars, wvars, evars, kvars, xvars, lvars>>
notP == <<tvars, dvars, vvars, mvars, fvars, gvars, svars, cvars, rvars, wvars, evars, kvars, xvars, lvars>>
notC == <<tvars, dvars, vvars, mvars, fvars, gvars, svars, pvars, rvars, wvars, evars, kvars, xvars, lvars>>
notR == <<tvars, dvars, vvars, mvars, fvars, gvars, svars, pvars, cvars, wvars, evars, kvars, xvars, lvars>>
notW == <<tvars, dvars, vvars, mvars, fvars, gvars, svars, pvars, cvars, rvars, evars, kvars, xvars, lvars>>
notE == <<tvars, dvars, vvars, mvars, fvars, gvars, svars, pvars, cvars, rvars, wvars, kvars, xvars, lvars>>
notK == <<tvars, dvars, vvars, mvars, fvars, gvars, svars, pvars, cvars, rvars, wvars, evars, xvars, lvars>>
notX == <<tvars, dvars, vvars, mvars, fvars, gvars, svars, pvars, cvars, rvars, wvars, evars, kvars, lvars>>
notL == <<tvars, dvars, vvars, mvars, fvars, gvars, svars, pvars, cvars, rvars, wvars, evars, kvars, xvars>>

\* ------------------------------------------------------------- Python values
None == 0
Values == 1..NumValues
OptValues == Values \cup {None}

\* ValueChangeType
BEGIN == 0
CHANGE == 1
END == 2

\* =========================================================================
\* StreamTask (Stream.py 64-89).  The record st holds the handle __task (None
\* or the index of a task in st.tasks) and every asyncio task it has created.
\* A task is "pending" (scheduled or sleeping), "cancelling" (cancel() was
\* called, the loop has not yet thrown CancelledError into it), "done" or
\* "cancelled" (finished; its done-callback zero_task is scheduled with
\* call_soon and has not run yet), or "closed" (zero_task has run).
\* =========================================================================
NewStreamTask == [task |-> None, tasks |-> <<>>]

is_active(st) == st.task # None

\* A cancel that the task ignores.
CancelTask_ignored(tasks, i) == tasks

\* asyncio.Task.cancel(): a request; a finished task ignores it.
CancelTask(tasks, i) ==
  IF tasks[i].state = "pending" THEN [tasks EXCEPT ![i].state = "cancelling"] ELSE tasks

\* A clear that drops the handle without cancelling the task.
clear_no_cancel(st) ==
  [task |-> None, tasks |-> st.tasks]

clear(st) ==
  [task |-> None,
   tasks |-> IF st.task # None THEN CancelTask(st.tasks, st.task) ELSE st.tasks]

\* A create_task with the assertion dropped: the handle is overwritten.
create_task_unchecked(st, due) ==
  [st |-> [task |-> Len(st.tasks) + 1,
           tasks |-> Append(st.tasks, [state |-> "pending", due |-> due])],
   err |-> FALSE]

\* create_task: err is the AssertionError of line 82, raised before any change.
create_task(st, due) ==
  IF st.task # None
  THEN [st |-> st, err |-> TRUE]
  ELSE [st |-> [task |-> Len(st.tasks) + 1,
                tasks |-> Append(st.tasks, [state |-> "pending", due |-> due])],
        err |-> FALSE]

\* A done-callback that forgets to clear the handle.
zero_task_noop(st, i) ==
  [st EXCEPT !.tasks[i].state = "closed"]

\* zero_task, the done-callback of task i: clears the handle, whichever task
\* the handle names at that moment.
zero_task(st, i) ==
  [task |-> None, tasks |-> [st.tasks EXCEPT ![i].state = "closed"]]

TasksIn(st, states) == {i \in DOMAIN st.tasks : st.tasks[i].state \in states}
PendingTasks(st) == TasksIn(st, {"pending"})

TInit == t_task = NewStreamTask /\ t_err = FALSE

\* create_task called by the owner, whether or not a task is held.
TCreate ==
  /\ Len(t_task.tasks) < MaxTasks
  /\ LET r == create_task(t_task, None) IN
       /\ t_task' = r.st
       /\ t_err' = r.err
       /\ UNCHANGED notT

TClear ==
  /\ t_task' = clear(t_task)
  /\ t_err' = FALSE
  /\ UNCHANGED notT

\* The caller cancels a task through the asyncio.Task create_task returned.
TCancel(i) ==
  /\ i \in DOMAIN t_task.tasks
  /\ t_task.tasks[i].state = "pending"
  /\ t_task' = [t_task EXCEPT !.tasks = CancelTask(t_task.tasks, i)]
  /\ t_err' = FALSE
  /\ UNCHANGED notT

\* The coroutine of task i runs to its end.
TFinish(i) ==
  /\ i \in DOMAIN t_task.tasks
  /\ t_task.tasks[i].state = "pending"
  /\ t_task' = [t_task EXCEPT !.tasks[i].state = "done"]
  /\ t_err' = FALSE
  /\ UNCHANGED notT

\* The event loop throws CancelledError into task i.
TCancelled(i) ==
  /\ i \in DOMAIN t_task.tasks
  /\ t_task.tasks[i].state = "cancelling"
  /\ t_task' = [t_task EXCEPT !.tasks[i].state = "cancelled"]
  /\ t_err' = FALSE
  /\ UNCHANGED notT

\* The event loop runs the done-callback of task i.
TZero(i) ==
  /\ i \in DOMAIN t_task.tasks
  /\ t_task.tasks[i].state \in {"done", "cancelled"}
  /\ t_task' = zero_task(t_task, i)
  /\ t_err' = FALSE
  /\ UNCHANGED notT

TNext ==
  \/ TCreate
  \/ TClear
  \/ \E i \in DOMAIN t_task.tasks : TCancel(i)
  \/ \E i \in DOMAIN t_task.tasks : TFinish(i)
  \/ \E i \in DOMAIN t_task.tasks : TCancelled(i)
  \/ \E i \in DOMAIN t_task.tasks : TZero(i)


\* =========================================================================
\* DebounceStream (Stream.py 192-232) over a ValueStream input.  Time is a
\* discrete clock d_now.  The event loop is punctual: the clock does not
\* advance while a sleep is due or a scheduled callback has not run.
\* d_fired logs every value_stream.fire of the DebounceStream with its time.
\* d_burst follows the burst of input changes that began with the last change
\* that found the delay task idle (is_active false).  d_seen keeps the value
\* the input held at construction and whether the input has fired since.
\* =========================================================================
NoBurst ==
  [on |-> FALSE, start |-> None, last_at |-> None,
   last_value |-> None, win |-> FALSE, fires |-> None, fire_at |-> None,
   fire_value |-> None]

\* __value_changed with the stash moved under the guard: a change that
\* arrives while the task is scheduled is not stashed.
value_changed_no_stash(holder, st, value, now) ==
  IF ~is_active(st)
  THEN LET r == create_task(st, now + Period) IN
         [holder |-> value, st |-> r.st, err |-> r.err]
  ELSE [holder |-> holder, st |-> st, err |-> FALSE]

\* __value_changed without the is_active guard: it schedules on every change.
value_changed_unguarded(holder, st, value, now) ==
  LET r == create_task(st, now + Period) IN
    [holder |-> value, st |-> r.st, err |-> r.err]

\* __value_changed restarting the delay on every change.
value_changed_restart(holder, st, value, now) ==
  LET r == create_task(clear(st), now + Period) IN
    [holder |-> value, st |-> r.st, err |-> r.err]

\* __value_changed that schedules nothing for the first value it stashes.
value_changed_lazy(holder, st, value, now) ==
  IF ~is_active(st) /\ holder # None
  THEN LET r == create_task(st, now + Period) IN
         [holder |-> value, st |-> r.st, err |-> r.err]
  ELSE [holder |-> value, st |-> st, err |-> FALSE]

\* DebounceStream.__value_changed: stash, and schedule debounce_delay only
\* when no task is held; the sleep ends at now + period.
value_changed(holder, st, value, now) ==
  IF ~is_active(st)
  THEN LET r == create_task(st, now + Period) IN
         [holder |-> value, st |-> r.st, err |-> r.err]
  ELSE [holder |-> value, st |-> st, err |-> FALSE]

\* DebounceStream.__init__ over an input stream holding v.
DInit ==
  \E v \in Values :
    LET r == value_changed(None, NewStreamTask, v, 0) IN
      /\ d_now = 0
      /\ d_input = v
      /\ d_value_holder = r.holder
      /\ d_debounce_task = r.st
      /\ d_alive = TRUE
      /\ d_err = r.err
      /\ d_fired = <<>>
      /\ d_burst = NoBurst
      /\ d_seen = [init |-> v, changed |-> FALSE]

\* The burst record after an input change to v at time now, where idle says
\* whether the change found the delay task idle.
BurstAfterSet(b, idle, v, now) ==
  IF idle
  THEN [on |-> TRUE, start |-> now, last_at |-> now,
        last_value |-> v, win |-> TRUE, fires |-> 0, fire_at |-> None,
        fire_value |-> None]
  ELSE IF b.on
       THEN [b EXCEPT !.last_at = now, !.last_value = v,
                      !.win = @ /\ now < b.start + Period]
       ELSE b

\* The input ValueStream's value setter (Stream.py 109-120) is given v; it
\* fires when v differs, and the listener (a weak_partial, a no-op once the
\* DebounceStream is gone) calls __value_changed.
DSet(v) ==
  /\ v # d_input
  /\ d_input' = v
  /\ IF d_alive
     THEN LET r == value_changed(d_value_holder, d_debounce_task, v, d_now) IN
            /\ d_value_holder' = r.holder
            /\ d_debounce_task' = r.st
            /\ d_err' = (d_err \/ r.err)
            /\ d_burst' = BurstAfterSet(d_burst, ~is_active(d_debounce_task), v, d_now)
     ELSE UNCHANGED <<d_value_holder, d_debounce_task, d_err, d_burst>>
  /\ d_seen' = [d_seen EXCEPT !.changed = TRUE]
  /\ UNCHANGED <<d_now, d_alive, d_fired>>
  /\ UNCHANGED notD

\* debounce_delay wakes from its sleep and fires the value the holder has now.
DDelayFire(i) ==
  /\ i \in DOMAIN d_debounce_task.tasks
  /\ d_debounce_task.tasks[i].state = "pending"
  /\ d_debounce_task.tasks[i].due <= d_now
  /\ d_fired' = Append(d_fired, [value |-> d_value_holder, at |-> d_now])
  /\ d_debounce_task' = [d_debounce_task EXCEPT !.tasks[i].state = "done"]
  /\ d_burst' = IF d_burst.on
                THEN [d_burst EXCEPT !.fires = @ + 1,
                                     !.fire_at = IF d_burst.fires = 0 THEN d_now ELSE @,
                                     !.fire_value = d_value_holder]
                ELSE d_burst
  /\ UNCHANGED <<d_now, d_input, d_value_holder, d_alive, d_err, d_seen>>
  /\ UNCHANGED notD

\* The event loop throws CancelledError into the sleeping debounce_delay.
DCancelled(i) ==
  /\ i \in DOMAIN d_debounce_task.tasks
  /\ d_debounce_task.tasks[i].state = "cancelling"
  /\ d_debounce_task' = [d_debounce_task EXCEPT !.tasks[i].state = "cancelled"]
  /\ UNCHANGED <<d_now, d_input, d_value_holder, d_alive, d_err, d_fired, d_burst,
                 d_seen>>
  /\ UNCHANGED notD

\* The event loop runs zero_task for the finished task i.
DZero(i) ==
  /\ i \in DOMAIN d_debounce_task.tasks
  /\ d_debounce_task.tasks[i].state \in {"done", "cancelled"}
  /\ d_debounce_task' = zero_task(d_debounce_task, i)
  /\ UNCHANGED <<d_now, d_input, d_value_holder, d_alive, d_err, d_fired, d_burst,
                 d_seen>>
  /\ UNCHANGED notD

\* The DebounceStream is collected: weakref.finalize runs task.clear().
DFinalize ==
  /\ d_alive
  /\ d_alive' = FALSE
  /\ d_debounce_task' = clear(d_debounce_task)
  /\ UNCHANGED <<d_now, d_input, d_value_holder, d_err, d_fired, d_burst, d_seen>>
  /\ UNCHANGED notD

LoopBusy(st, now) ==
  \/ TasksIn(st, {"cancelling", "done", "cancelled"}) # {}
  \/ \E i \in PendingTasks(st) : st.tasks[i].due <= now

DTick ==
  /\ d_now < MaxTime
  /\ ~LoopBusy(d_debounce_task, d_now)
  /\ d_now' = d_now + 1
  /\ UNCHANGED <<d_input, d_value_holder, d_debounce_task, d_alive, d_err,
                 d_fired, d_burst, d_seen>>
  /\ UNCHANGED notD

DNext ==
  \/ \E v \in Values : DSet(v)
  \/ \E i \in DOMAIN d_debounce_task.tasks : DDelayFire(i)
  \/ \E i \in DOMAIN d_debounce_task.tasks : DCancelled(i)
  \/ \E i \in DOMAIN d_debounce_task.tasks : DZero(i)
  \/ DFinalize
  \/ DTick

\* =========================================================================
\* ValueChangeStream (Stream.py 416-465), a ValueStream of ValueChange
\* objects over an input ValueStream.  A ValueChange defines no __eq__, so the
\* setter's != compares identities: oid numbers the objects as they are
\* constructed, and oid None stands for the Python None the stream starts
\* with.  v_stream.fired logs every value_stream.fire, v_ops every operation.
\* =========================================================================
ValueChange(state, value, oid) == [state |-> state, value |-> value, oid |-> oid]
NoValueChange == [state |-> None, value |-> None, oid |-> None]

NewValueChangeStream ==
  [value |-> NoValueChange, is_active |-> FALSE, next_oid |-> 1, fired |-> <<>>,
   err |-> FALSE]

\* A _send_value that does not look at the active flag.
VCS_send_value_ungated(s) ==
  [s EXCEPT !.fired = Append(@, s.value)]

\* ValueChangeStream._send_value: fires only while active; err is the
\* assertion of line 453.
VCS_send_value(s) ==
  IF s.is_active
  THEN IF s.value.oid = None
       THEN [s EXCEPT !.err = TRUE]
       ELSE [s EXCEPT !.fired = Append(@, s.value)]
  ELSE s

\* ValueStream.value setter and send_value (lines 109-116) with a freshly
\* constructed ValueChange.
VCS_set_value(s, state, value) ==
  LET vc == ValueChange(state, value, s.next_oid)
      s1 == [s EXCEPT !.next_oid = @ + 1]
  IN IF s1.value # vc
     THEN VCS_send_value([s1 EXCEPT !.value = vc])
     ELSE s1

\* A begin that assigns the BEGIN value before it raises the active flag.
VCS_begin_late(s, input) ==
  [VCS_set_value(s, BEGIN, input) EXCEPT !.is_active = TRUE]

VCS_begin(s, input) ==
  VCS_set_value([s EXCEPT !.is_active = TRUE], BEGIN, input)

VCS_end(s, input) ==
  [VCS_set_value(s, END, input) EXCEPT !.is_active = FALSE]

\* __value_changed: the listener on the input stream.
VCS_value_changed(s, input) ==
  VCS_set_value(s, CHANGE, input)

Op(name, arg) == [op |-> name, arg |-> arg]

VInit ==
  /\ v_input \in Values
  /\ v_init = v_input
  /\ v_stream = NewValueChangeStream
  /\ v_ops = <<>>

VBegin ==
  /\ Len(v_ops) < MaxOps
  /\ v_stream' = VCS_begin(v_stream, v_input)
  /\ v_ops' = Append(v_ops, Op("begin", None))
  /\ UNCHANGED <<v_input, v_init>>
  /\ UNCHANGED notV

VEnd ==
  /\ Len(v_ops) < MaxOps
  /\ v_stream' = VCS_end(v_stream, v_input)
  /\ v_ops' = Append(v_ops, Op("end", None))
  /\ UNCHANGED <<v_input, v_init>>
  /\ UNCHANGED notV

\* The input ValueStream's value is assigned x: it fires, and the listener
\* runs, only when x differs from the value it holds.
VSet(x) ==
  /\ Len(v_ops) < MaxOps
  /\ v_input' = x
  /\ v_stream' = IF x # v_input THEN VCS_value_changed(v_stream, x) ELSE v_stream
  /\ v_ops' = Append(v_ops, Op("set", x))
  /\ UNCHANGED v_init
  /\ UNCHANGED notV

VNext ==
  \/ VBegin
  \/ VEnd
  \/ \E x \in Values : VSet(x)

\* =========================================================================
\* PropertyModel and StreamValueModel (Model.py 20-53, 115-134).  The model
\* mirrors m_kind, either a ValueStream holding m_source or an OptionalStream
\* (Stream.py 351-375) over that ValueStream; m_cmp is the comparator given to
\* the model, operator.eq ("eq") or a caller's tolerance comparator ("close").
\* m_last_fired is the value the mirrored stream fired last.  m_listening
\* tells whether handle_value is registered on the stream, m_refs counts the
\* add_ref and remove_ref calls the model has made on it, m_notes the
\* notifications the model has sent and m_after the stream's fires since
\* close() returned.
\* =========================================================================
Abs(n) == IF n < 0 THEN 0 - n ELSE n

Cmp(cmp, a, b) == IF cmp = "eq" THEN a = b ELSE Abs(a - b) <= 1

\* The comparison with the comparator's answer taken the wrong way round.
PropertyModel_not_equal_inverted(cmp, old, value) ==
  IF old = None THEN value # None
  ELSE IF value = None THEN old # None
  ELSE Cmp(cmp, value, old)

\* A comparison that leaves None to the comparator.
PropertyModel_not_equal_cmp_only(cmp, old, value) ==
  ~Cmp(cmp, value, old)

\* PropertyModel.value setter, lines 43-48: is the assignment a change?
PropertyModel_not_equal(cmp, old, value) ==
  IF old = None THEN value # None
  ELSE IF value = None THEN old # None
  ELSE ~Cmp(cmp, value, old)

\* PropertyModel.value setter: the value held after assigning value.
PropertyModel_set_value(cmp, old, value) ==
  IF PropertyModel_not_equal(cmp, old, value) THEN value ELSE old

\* The predicate given to the OptionalStream.
Pred(v) == v # None /\ v >= 2

\* The value property of the mirrored stream.
StreamValue(kind, source) ==
  IF kind = "ValueStream" THEN source ELSE None

\* What the mirrored stream fires when its ValueStream fires v.
StreamFires(kind, v) ==
  IF kind = "ValueStream" THEN v ELSE IF Pred(v) THEN v ELSE None

\* StreamValueModel.__init__: handle_value(value_stream.value).
MInit ==
  /\ m_kind \in {"ValueStream", "OptionalStream"}
  /\ m_cmp \in {"eq", "close"}
  /\ m_source \in OptValues
  /\ \E value \in OptValues :
       m_value = PropertyModel_set_value(m_cmp, value, StreamValue(m_kind, m_source))
  /\ m_open = TRUE
  /\ m_nfires = 0
  /\ m_last_fired = None
  /\ m_listening = TRUE
  /\ m_refs = [added |-> 1, removed |-> 0]
  /\ m_notes = 0
  /\ m_after = 0

\* The ValueStream is assigned v and fires; handle_value runs while the
\* model's listener is attached.
MSet(v) ==
  /\ m_nfires < MaxFires
  /\ v # m_source
  /\ m_source' = v
  /\ m_nfires' = m_nfires + 1
  /\ m_last_fired' = StreamFires(m_kind, v)
  /\ m_value' = IF m_listening
                THEN PropertyModel_set_value(m_cmp, m_value, StreamFires(m_kind, v))
                ELSE m_value
  /\ m_notes' = IF m_listening
                   /\ PropertyModel_not_equal(m_cmp, m_value, StreamFires(m_kind, v))
                THEN m_notes + 1 ELSE m_notes
  /\ m_after' = IF m_open THEN m_after ELSE m_after + 1
  /\ UNCHANGED <<m_kind, m_cmp, m_open, m_listening, m_refs>>
  /\ UNCHANGED notM

\* EventListener.close: the listener is taken off the event.
EventListener_close(listening) == FALSE

\* A close that leaves the listener registered.
StreamValueModel_close_leaky(listening, refs) ==
  [listening |-> listening, refs |-> [refs EXCEPT !.removed = @ + 1]]

\* StreamValueModel.close: the listener is closed, then remove_ref is called
\* on the stream.
StreamValueModel_close(listening, refs) ==
  [listening |-> EventListener_close(listening),
   refs |-> [refs EXCEPT !.removed = @ + 1]]

MClose ==
  /\ m_open
  /\ m_open' = FALSE
  /\ LET c == StreamValueModel_close(m_listening, m_refs) IN
       m_listening' = c.listening /\ m_refs' = c.refs
  /\ UNCHANGED <<m_kind, m_cmp, m_source, m_value, m_nfires, m_last_fired,
                 m_notes, m_after>>
  /\ UNCHANGED notM

MNext ==
  \/ \E v \in OptValues : MSet(v)
  \/ MClose

\* =========================================================================
\* FuncStreamValueModel (Model.py 56-112).  f_ready is the event loop's FIFO
\* of scheduled callbacks: handle_value_func calls queued by
\* call_soon_threadsafe and the next step of each evaluation task.  A task is
\* "created" (not started), "awaiting" (started, its function runs on a
\* worker), "resuming" (the worker is done, the wake-up is queued),
\* "cancelling" (cancel() was called), "done" or "cancelled".  f_landed logs
\* every assignment of a result to value: the task whose result it is and the
\* task submitted last at that moment.
\* =========================================================================
Funcs == 1..NumFuncs

\* The result of evaluating value function fn.
Result(fn) == 10 + fn

Call(fn) == [kind |-> "handle", arg |-> fn]
Step(i) == [kind |-> "task", arg |-> i]

\* asyncio.Task.cancel() on evaluation task i: fs is [tasks, ready].
EvalCancel(fs, i) ==
  IF fs.tasks[i].state \in {"created", "resuming"}
  THEN [fs EXCEPT !.tasks[i].state = "cancelling"]
  ELSE IF fs.tasks[i].state = "awaiting"
       THEN [fs EXCEPT !.tasks[i].state = "cancelling", !.ready = Append(@, Step(i))]
       ELSE fs

\* handle_value_func, lines 76-81: m is [task, task_to_complete, tasks, ready].
handle_value_func(m, fn) ==
  LET c == IF m.task # None
           THEN EvalCancel([tasks |-> m.tasks, ready |-> m.ready], m.task)
           ELSE [tasks |-> m.tasks, ready |-> m.ready]
      id == Len(c.tasks) + 1
  IN [task |-> id,
      task_to_complete |-> id,
      tasks |-> Append(c.tasks, [func |-> fn, state |-> "created"]),
      ready |-> Append(c.ready, Step(id))]

FModel == [task |-> f_task, task_to_complete |-> f_task_to_complete,
           tasks |-> f_tasks, ready |-> f_ready]

\* FuncStreamValueModel.__init__ over a stream holding function fn:
\* handle_value_func runs at once, on the constructing thread.
FInit ==
  \E fn \in Funcs :
    LET m == handle_value_func([task |-> None, task_to_complete |-> None,
                                tasks |-> <<>>, ready |-> <<>>], fn) IN
      /\ f_task = m.task
      /\ f_task_to_complete = m.task_to_complete
      /\ f_tasks = m.tasks
      /\ f_ready = m.ready
      /\ f_value = None
      /\ f_open = TRUE
      /\ f_landed = <<>>

QueuedCalls == {k \in DOMAIN f_ready : f_ready[k].kind = "handle"}

\* The upstream fires function fn: handle_value_func_soon queues the call.
FFire(fn) ==
  /\ f_open
  /\ Len(f_tasks) + Cardinality(QueuedCalls) < MaxEvals
  /\ f_ready' = Append(f_ready, Call(fn))
  /\ UNCHANGED <<f_task, f_task_to_complete, f_tasks, f_value, f_open, f_landed>>
  /\ UNCHANGED notF

\* The loop runs a queued handle_value_func.
FHandle ==
  /\ f_ready # <<>>
  /\ Head(f_ready).kind = "handle"
  /\ LET m == handle_value_func([FModel EXCEPT !.ready = Tail(f_ready)],
                                Head(f_ready).arg) IN
       /\ f_task' = m.task
       /\ f_task_to_complete' = m.task_to_complete
       /\ f_tasks' = m.tasks
       /\ f_ready' = m.ready
  /\ UNCHANGED <<f_value, f_open, f_landed>>
  /\ UNCHANGED notF

\* The loop runs the first step of evaluate_value_func: line 70 sets
\* self.__task = None, line 74 hands the function to the executor and awaits.
FStart ==
  /\ f_ready # <<>>
  /\ Head(f_ready).kind = "task"
  /\ f_tasks[Head(f_ready).arg].state = "created"
  /\ f_task' = None
  /\ f_tasks' = [f_tasks EXCEPT ![Head(f_ready).arg].state = "awaiting"]
  /\ f_ready' = Tail(f_ready)
  /\ UNCHANGED <<f_task_to_complete, f_value, f_open, f_landed>>
  /\ UNCHANGED notF

\* The worker thread returns from the value function of task i.
FWorkerDone(i) ==
  /\ i \in DOMAIN f_tasks
  /\ f_tasks[i].state = "awaiting"
  /\ f_tasks' = [f_tasks EXCEPT ![i].state = "resuming"]
  /\ f_ready' = Append(f_ready, Step(i))
  /\ UNCHANGED <<f_task, f_task_to_complete, f_value, f_open, f_landed>>
  /\ UNCHANGED notF

\* The loop resumes evaluate_value_func after the await: line 74 assigns the
\* result to value.
FResume ==
  /\ f_ready # <<>>
  /\ Head(f_ready).kind = "task"
  /\ f_tasks[Head(f_ready).arg].state = "resuming"
  /\ f_value' = PropertyModel_set_value("eq", f_value, Result(f_tasks[Head(f_ready).arg].func))
  /\ f_landed' = Append(f_landed, [task |-> Head(f_ready).arg, latest |-> Len(f_tasks)])
  /\ f_tasks' = [f_tasks EXCEPT ![Head(f_ready).arg].state = "done"]
  /\ f_ready' = Tail(f_ready)
  /\ UNCHANGED <<f_task, f_task_to_complete, f_open>>
  /\ UNCHANGED notF

\* The loop steps a task that was cancelled (CancelledError is thrown into
\* it), or reaches a stale entry of a task that has ended.
FCancelled ==
  /\ f_ready # <<>>
  /\ Head(f_ready).kind = "task"
  /\ f_tasks[Head(f_ready).arg].state \in {"cancelling", "cancelled", "done"}
  /\ f_tasks' = IF f_tasks[Head(f_ready).arg].state = "cancelling"
                THEN [f_tasks EXCEPT ![Head(f_ready).arg].state = "cancelled"]
                ELSE f_tasks
  /\ f_ready' = Tail(f_ready)
  /\ UNCHANGED <<f_task, f_task_to_complete, f_value, f_open, f_landed>>
  /\ UNCHANGED notF

\* The callable line 74 hands to the executor.  call_value_func, which wraps
\* the function in "with self.__task_lock", is defined at lines 71-73 and used
\* nowhere.
ExecutorCallable == "value_func"

\* The evaluation tasks whose worker call is executing the value function.
Executing(tasks) == {i \in DOMAIN tasks : tasks[i].state = "awaiting"}

\* The worker calls that hold __task_lock: only a call_value_func would.
task_lock_holders(tasks) ==
  IF ExecutorCallable = "call_value_func" THEN Executing(tasks) ELSE {}

\* FuncStreamValueModel.close: the listener is closed, the held task, if
\* any, is cancelled, and "with self.__task_lock: pass" passes once no worker
\* call holds the lock.
FClose ==
  /\ f_open
  /\ task_lock_holders(f_tasks) = {}
  /\ f_open' = FALSE
  /\ LET c == IF f_task # None
              THEN EvalCancel([tasks |-> f_tasks, ready |-> f_ready], f_task)
              ELSE [tasks |-> f_tasks, ready |-> f_ready] IN
       /\ f_tasks' = c.tasks
       /\ f_ready' = c.ready
  /\ f_task' = None
  /\ UNCHANGED <<f_task_to_complete, f_value, f_landed>>
  /\ UNCHANGED notF

FNext ==
  \/ \E fn \in Funcs : FFire(fn)
  \/ FHandle
  \/ FStart
  \/ \E i \in DOMAIN f_tasks : FWorkerDone(i)
  \/ FResume
  \/ FCancelled
  \/ FClose

\* =========================================================================
\* The synchronous streams: ValueStream, MapStream, CombineLatestStream and
\* PropertyChangedEventStream (Stream.py 92-189, 297-348)
\* =========================================================================
\* ValueStreams A and B feed MapStream(A, MapFn) and
\* CombineLatestStream([A, B], value_fn); a PropertyChangedEventStream watches
\* the property PropertyName of one Observable.  A handler's result is a
\* record whose field fires is the sequence of payloads it fired on its
\* value_stream, in order; g_fired logs every fire of each stream.

\* A setter that sends every assigned value, new or not.
ValueStream_set_value_always(held, value) ==
  [value |-> value, fires |-> <<value>>]

\* ValueStream.value setter, which calls send_value only for a new value.
ValueStream_set_value(held, value) ==
  IF held # value
  THEN [value |-> value, fires |-> <<value>>]
  ELSE [value |-> held, fires |-> <<>>]

\* The value_fn given to the MapStream: it maps two inputs to one output and
\* None to None.
MapFn(v) == (v + 1) \div 2

\* An update_value whose send_value fires without storing the value.
MapStream_update_value_unstored(held, value) ==
  LET new_value == MapFn(value) IN
    IF new_value # held
    THEN [value |-> held, fires |-> <<new_value>>]
    ELSE [value |-> held, fires |-> <<>>]

\* An update_value that sends every mapped value, new or not.
MapStream_update_value_always(held, value) ==
  [value |-> MapFn(value), fires |-> <<MapFn(value)>>]

\* MapStream's update_value listener followed by send_value.
MapStream_update_value(held, value) ==
  LET new_value == MapFn(value) IN
    IF new_value # held
    THEN [value |-> new_value, fires |-> <<new_value>>]
    ELSE [value |-> held, fires |-> <<>>]

\* MapStream.__init__: __value starts as None, then update_value(stream.value).
MapStream_init(stream_value) == MapStream_update_value(None, stream_value)

Max(a, b) == IF a >= b THEN a ELSE b

\* The combiner: the default builds the tuple of the slots; "max" is a
\* value_fn handed to the constructor.
value_fn(fn, values) ==
  IF fn = "default" THEN values ELSE Max(values[1], values[2])

\* CombineLatestStream.__values_changed: recompute and fire, unconditionally.
CombineLatest_values_changed(fn, values) ==
  LET v == value_fn(fn, values) IN
    [values |-> values, value |-> v, fires |-> <<v>>]

\* A __handle_stream_value that fires only a combined value that differs
\* from the previous one.
CombineLatest_handle_stream_value_deduped(fn, values, index, value) ==
  LET vs == [values EXCEPT ![index] = value] IN
    IF value_fn(fn, vs) = value_fn(fn, values)
    THEN [values |-> vs, value |-> value_fn(fn, vs), fires |-> <<>>]
    ELSE CombineLatest_values_changed(fn, vs)

\* CombineLatestStream.__handle_stream_value(index, value).
CombineLatest_handle_stream_value(fn, values, index, value) ==
  CombineLatest_values_changed(fn, [values EXCEPT ![index] = value])

\* The loop of CombineLatestStream.__init__ from index on: slot index takes
\* the value of the stream at that place of the list.
RECURSIVE CombineLatest_fill(_, _, _)
CombineLatest_fill(values, stream_values, index) ==
  IF index > Len(stream_values) THEN values
  ELSE CombineLatest_fill([values EXCEPT ![index] = stream_values[index]],
                          stream_values, index + 1)

\* A constructor that calls __values_changed inside the loop, once per stream.
CombineLatest_init_fire_each(fn, stream_values) ==
  LET n == Len(stream_values)
      values == CombineLatest_fill([i \in 1..n |-> None], stream_values, 1)
  IN [values |-> values, value |-> value_fn(fn, values),
      fires |-> [i \in 1..n |-> value_fn(fn,
                   [j \in 1..n |-> IF j <= i THEN stream_values[j] ELSE None])]]

\* CombineLatestStream.__init__: the slots start as None, the loop fills them
\* from the streams of the list, then __values_changed runs once.
CombineLatest_init(fn, stream_values) ==
  CombineLatest_values_changed(fn,
    CombineLatest_fill([i \in 1..Len(stream_values) |-> None], stream_values, 1))

PropertyName == "value"
Keys == {PropertyName, "other"}

\* PropertyChangedEventStream.__property_changed(key), attr being what getattr
\* returns for the property; the comparator is the default operator.eq.
PCES_property_changed(held, key, attr) ==
  IF key = PropertyName /\ ~Cmp("eq", attr, held)
  THEN [value |-> attr, fires |-> <<attr>>]
  ELSE [value |-> held, fires |-> <<>>]

\* PropertyChangedEventStream.__init__ over an Observable whose property is
\* attr: __source_object_changed listens to it and reads the property.
PCES_init(attr) == PCES_property_changed(None, PropertyName, attr)

GInit ==
  \E a0 \in Values, fn \in {"default", "max"} :
    LET m == MapStream_init(a0)
        c == CombineLatest_init(fn, <<a0, None>>)
        p == PCES_init(None)
    IN
      /\ g_a = a0
      /\ g_b = None
      /\ g_assigned = <<>>
      /\ g_map = m.value
      /\ g_values = c.values
      /\ g_combine = c.value
      /\ g_prop = None
      /\ g_pvalue = p.value
      /\ g_fired = [a |-> <<>>, b |-> <<>>, map |-> m.fires,
                    combine |-> c.fires, prop |-> p.fires]
      /\ g_built = [a0 |-> a0, b0 |-> None, fn |-> fn,
                    map_fires |-> Len(m.fires), combine_fires |-> Len(c.fires)]
      /\ g_nops = 0

\* A.value = v: the setter fires, and the listeners of A (MapStream, slot 1 of
\* the CombineLatestStream) run before the assignment returns.
GSetA(v) ==
  /\ g_nops < MaxGraphOps
  /\ g_nops' = g_nops + 1
  /\ g_assigned' = Append(g_assigned, v)
  /\ LET s == ValueStream_set_value(g_a, v) IN
       /\ g_a' = s.value
       /\ IF s.fires = <<>>
          THEN UNCHANGED <<g_map, g_values, g_combine, g_fired>>
          ELSE LET m == MapStream_update_value(g_map, s.fires[1])
                   c == CombineLatest_handle_stream_value(g_built.fn, g_values, 1,
                                                          s.fires[1])
               IN
                 /\ g_map' = m.value
                 /\ g_values' = c.values
                 /\ g_combine' = c.value
                 /\ g_fired' = [g_fired EXCEPT !.a = @ \o s.fires,
                                               !.map = @ \o m.fires,
                                               !.combine = @ \o c.fires]
  /\ UNCHANGED <<g_b, g_built, g_prop, g_pvalue>>
  /\ UNCHANGED notG

\* B.value = v: the listener of B is slot 2 of the CombineLatestStream.
GSetB(v) ==
  /\ g_nops < MaxGraphOps
  /\ g_nops' = g_nops + 1
  /\ LET s == ValueStream_set_value(g_b, v) IN
       /\ g_b' = s.value
       /\ IF s.fires = <<>>
          THEN UNCHANGED <<g_values, g_combine, g_fired>>
          ELSE LET c == CombineLatest_handle_stream_value(g_built.fn, g_values, 2,
                                                          s.fires[1])
               IN
                 /\ g_values' = c.values
                 /\ g_combine' = c.value
                 /\ g_fired' = [g_fired EXCEPT !.b = @ \o s.fires,
                                               !.combine = @ \o c.fires]
  /\ UNCHANGED <<g_a, g_built, g_assigned, g_map, g_prop, g_pvalue>>
  /\ UNCHANGED notG

\* The observed object sets its property to v and fires
\* property_changed_event with the property's name.
GSetProperty(v) ==
  /\ g_nops < MaxGraphOps
  /\ g_nops' = g_nops + 1
  /\ g_prop' = v
  /\ LET p == PCES_property_changed(g_pvalue, PropertyName, v) IN
       /\ g_pvalue' = p.value
       /\ g_fired' = [g_fired EXCEPT !.prop = @ \o p.fires]
  /\ UNCHANGED <<g_a, g_b, g_built, g_assigned, g_map, g_values, g_combine>>
  /\ UNCHANGED notG

\* The observed object fires property_changed_event for another property.
GNotifyOther ==
  /\ g_nops < MaxGraphOps
  /\ g_nops' = g_nops + 1
  /\ LET p == PCES_property_changed(g_pvalue, "other", g_prop) IN
       /\ g_pvalue' = p.value
       /\ g_fired' = [g_fired EXCEPT !.prop = @ \o p.fires]
  /\ UNCHANGED <<g_a, g_b, g_built, g_assigned, g_map, g_values, g_combine, g_prop>>
  /\ UNCHANGED notG

GNext ==
  \/ \E v \in OptValues : GSetA(v)
  \/ \E v \in OptValues : GSetB(v)
  \/ \E v \in OptValues : GSetProperty(v)
  \/ GNotifyOther

\* =========================================================================
\* SampleStream (Stream.py 235-282)
\* =========================================================================
\* The clock is s_now; sample_loop sleeps Period, runs one iteration (a tick
\* of the loop) and sleeps again, so task i carries the time its current
\* sleep ends.  s_fired logs every fire of value_stream with its time and the
\* number of the tick that made it.  s_seen records the history the claims
\* speak of: ticks counts the ticks so far; set says the input has fired,
\* set_at when it fired last, sets how often it fired since the previous tick
\* (2 standing for two or more) and took what sets was at the latest tick;
\* wakes and fires count the ticks and the fires since the input fired last,
\* woke_at being the time of the first such tick.

NewSampleValue == [value |-> None, pending_value |-> None, is_dirty |-> FALSE]

\* A set_pending_value that keeps the first value of a period.
set_pending_value_first(sv, value) ==
  IF sv.is_dirty THEN sv
  ELSE [sv EXCEPT !.pending_value = value, !.is_dirty = TRUE]

\* SampleValue.set_pending_value.
set_pending_value(sv, value) ==
  [sv EXCEPT !.pending_value = value, !.is_dirty = TRUE]

\* An iteration that leaves is_dirty set.
sample_loop_stays_dirty(sv) ==
  IF sv.is_dirty
  THEN [sv |-> [sv EXCEPT !.value = sv.pending_value],
        fires |-> <<sv.pending_value>>]
  ELSE [sv |-> sv, fires |-> <<>>]

\* The body of one iteration of sample_loop, after the sleep.
sample_loop(sv) ==
  IF sv.is_dirty
  THEN [sv |-> [sv EXCEPT !.value = sv.pending_value, !.is_dirty = FALSE],
        fires |-> <<sv.pending_value>>]
  ELSE [sv |-> sv, fires |-> <<>>]

NotSeen == [ticks |-> 0, set |-> FALSE, set_at |-> None, sets |-> 0, took |-> 0,
            wakes |-> 0, fires |-> 0, woke_at |-> None]

\* SampleStream.__init__ over an input stream holding v: value is read from
\* the input and the StreamTask starts sample_loop, which sleeps Period.
SInit ==
  \E v \in Values :
    /\ s_now = 0
    /\ s_input = v
    /\ s_sample_value = [NewSampleValue EXCEPT !.value = v]
    /\ s_sample_task = create_task(NewStreamTask, Period).st
    /\ s_alive = TRUE
    /\ s_fired = <<>>
    /\ s_seen = NotSeen

\* The input ValueStream's value setter is given a new value v and fires; the
\* listener (a weak_partial, a no-op once the SampleStream is gone) calls
\* __value_changed.
SSet(v) ==
  /\ v # s_input
  /\ s_input' = v
  /\ s_sample_value' = IF s_alive THEN set_pending_value(s_sample_value, v)
                                  ELSE s_sample_value
  /\ s_seen' = [s_seen EXCEPT !.set = TRUE, !.set_at = s_now,
                              !.sets = IF @ = 0 THEN 1 ELSE 2,
                              !.wakes = 0, !.fires = 0, !.woke_at = None]
  /\ UNCHANGED <<s_now, s_sample_task, s_alive, s_fired>>
  /\ UNCHANGED notS

\* sample_loop wakes from its sleep, runs one iteration and sleeps again.
STickLoop(i) ==
  /\ i \in DOMAIN s_sample_task.tasks
  /\ s_sample_task.tasks[i].state = "pending"
  /\ s_sample_task.tasks[i].due <= s_now
  /\ LET r == sample_loop(s_sample_value) IN
       /\ s_sample_value' = r.sv
       /\ s_fired' = s_fired \o
                       [k \in 1..Len(r.fires) |->
                          [value |-> r.fires[k], at |-> s_now,
                           tick |-> s_seen.ticks + 1]]
       /\ s_seen' = [s_seen EXCEPT !.ticks = @ + 1, !.sets = 0,
                                   !.took = s_seen.sets,
                                   !.wakes = @ + 1,
                                   !.fires = @ + Len(r.fires),
                                   !.woke_at = IF s_seen.wakes = 0 THEN s_now ELSE @]
  /\ s_sample_task' = [s_sample_task EXCEPT !.tasks[i].due = s_now + Period]
  /\ UNCHANGED <<s_now, s_input, s_alive>>
  /\ UNCHANGED notS

\* The event loop throws CancelledError into the sleeping sample_loop.
SCancelled(i) ==
  /\ i \in DOMAIN s_sample_task.tasks
  /\ s_sample_task.tasks[i].state = "cancelling"
  /\ s_sample_task' = [s_sample_task EXCEPT !.tasks[i].state = "cancelled"]
  /\ UNCHANGED <<s_now, s_input, s_sample_value, s_alive, s_fired, s_seen>>
  /\ UNCHANGED notS

\* The event loop runs zero_task for the finished task i.
SZero(i) ==
  /\ i \in DOMAIN s_sample_task.tasks
  /\ s_sample_task.tasks[i].state \in {"done", "cancelled"}
  /\ s_sample_task' = zero_task(s_sample_task, i)
  /\ UNCHANGED <<s_now, s_input, s_sample_value, s_alive, s_fired, s_seen>>
  /\ UNCHANGED notS

\* The SampleStream is collected: weakref.finalize runs task.clear().
SFinalize ==
  /\ s_alive
  /\ s_alive' = FALSE
  /\ s_sample_task' = clear(s_sample_task)
  /\ UNCHANGED <<s_now, s_input, s_sample_value, s_fired, s_seen>>
  /\ UNCHANGED notS

\* The clock advances once the event loop has nothing left to run.
STick ==
  /\ s_now < MaxTime
  /\ ~LoopBusy(s_sample_task, s_now)
  /\ s_now' = s_now + 1
  /\ UNCHANGED <<s_input, s_sample_value, s_sample_task, s_alive, s_fired, s_seen>>
  /\ UNCHANGED notS

SNext ==
  \/ \E v \in Values : SSet(v)
  \/ \E i \in DOMAIN s_sample_task.tasks : STickLoop(i)
  \/ \E i \in DOMAIN s_sample_task.tasks : SCancelled(i)
  \/ \E i \in DOMAIN s_sample_task.tasks : SZero(i)
  \/ SFinalize
  \/ STick

\* =========================================================================
\* PropertyChangedEventStream over a stream of source objects
\* (Stream.py 297-348)
\* =========================================================================
\* p_source is the value of the source stream (a ValueStream of Observables,
\* None when absent) and p_props the named property of every object.
\* p_listeners holds the objects whose property_changed_event still calls a
\* listener of this stream: __source_object_changed drops the only reference
\* to the old listener without closing it, and whether the event stops
\* calling a dropped listener at once is left open here (both happen).
\* p_fired is the sequence of payloads the latest operation fired and p_op
\* the kind of that operation.

Objects == 1..NumObjects
OptObjects == Objects \cup {None}

\* The comparators handed to the constructor: the default operator.eq, or one
\* that also reports two present values at most 1 apart as equal.
PCES_cmp(cmp, a, b) ==
  \/ a = b
  \/ cmp = "close" /\ a # None /\ b # None /\ Abs(a - b) <= 1

\* getattr(self.__source_object, self.__property_name, None).
PCES_getattr(props, object) == IF object = None THEN None ELSE props[object]

\* PropertyChangedEventStream.__property_changed(key) under comparator cmp,
\* attr being what getattr returns.
PCES_property_changed_cmp(cmp, held, key, attr) ==
  IF key = PropertyName /\ ~PCES_cmp(cmp, attr, held)
  THEN [value |-> attr, fires |-> <<attr>>]
  ELSE [value |-> held, fires |-> <<>>]

\* A __source_object_changed that waits for the next property change before
\* it recomputes.
PCES_source_object_changed_lazy(cmp, held, listeners, props, source_object, dropped) ==
  [source_object |-> source_object,
   listeners |-> (IF dropped THEN {} ELSE listeners)
                   \cup (IF source_object # None THEN {source_object} ELSE {}),
   value |-> held, fires |-> <<>>]

\* PropertyChangedEventStream.__source_object_changed(source_object); dropped
\* says whether the event of the old object has let go of the old listener.
PCES_source_object_changed(cmp, held, listeners, props, source_object, dropped) ==
  LET r == PCES_property_changed_cmp(cmp, held, PropertyName,
                                     PCES_getattr(props, source_object))
  IN [source_object |-> source_object,
      listeners |-> (IF dropped THEN {} ELSE listeners)
                      \cup (IF source_object # None THEN {source_object} ELSE {}),
      value |-> r.value, fires |-> r.fires]

\* PropertyChangedEventStream.__init__ over a source stream holding an object
\* (or None).
PInit ==
  \E cmp \in {"eq", "close"}, o \in OptObjects :
    LET props == [x \in Objects |-> None]
        r == PCES_source_object_changed(cmp, None, {}, props, o, TRUE)
    IN
      /\ p_cmp = cmp
      /\ p_props = props
      /\ p_source = o
      /\ p_object = r.source_object
      /\ p_listeners = r.listeners
      /\ p_value = r.value
      /\ p_fired = r.fires
      /\ p_op = "init"

\* The source stream's value setter is given a different object (or None) and
\* fires; the listener calls __source_object_changed.
PSetSource(o, dropped) ==
  /\ o # p_source
  /\ p_source' = o
  /\ LET r == PCES_source_object_changed(p_cmp, p_value, p_listeners, p_props,
                                         o, dropped) IN
       /\ p_object' = r.source_object
       /\ p_listeners' = r.listeners
       /\ p_value' = r.value
       /\ p_fired' = r.fires
  /\ p_op' = "source"
  /\ UNCHANGED <<p_cmp, p_props>>
  /\ UNCHANGED notP

\* Object o sets a property to v and fires property_changed_event(key); when
\* key names the observed property it is that property which is set.  Every
\* listener of this stream still called by o's event runs __property_changed.
PNotify(o, key, v) ==
  /\ p_props' = IF key = PropertyName THEN [p_props EXCEPT ![o] = v] ELSE p_props
  /\ IF o \in p_listeners
     THEN LET r == PCES_property_changed_cmp(p_cmp, p_value, key,
                                             PCES_getattr(p_props', p_object)) IN
            /\ p_value' = r.value
            /\ p_fired' = r.fires
     ELSE /\ p_value' = p_value
          /\ p_fired' = <<>>
  /\ p_op' = "notify"
  /\ UNCHANGED <<p_cmp, p_source, p_object, p_listeners>>
  /\ UNCHANGED notP

PNext ==
  \/ \E o \in OptObjects, dropped \in BOOLEAN : PSetSource(o, dropped)
  \/ \E o \in Objects, key \in Keys, v \in OptValues : PNotify(o, key, v)

\* =========================================================================
\* PropertyModel (Model.py 20-53)
\* =========================================================================
\* c_trace is what the assignments of the run did, in order: a "store" event
\* when __value is written, a "notify" event when
\* notify_property_changed("value") is delivered and a "callback" event when
\* on_value_changed is called.  A "store" or "callback" event carries the
\* value written or passed, a "notify" event the value the model's value
\* property returns while the notification is delivered.  c_old and
\* c_assigned are the value held before the latest assignment and the value
\* it assigned.

Event(ev, value) == [ev |-> ev, value |-> value]

\* A setter that calls on_value_changed before it notifies.
PropertyModel_assign_callback_first(cmp, old, value, callback) ==
  IF PropertyModel_not_equal(cmp, old, value)
  THEN [value |-> value,
        trace |-> <<Event("store", value)>>
                    \o (IF callback THEN <<Event("callback", value)>> ELSE <<>>)
                    \o <<Event("notify", value)>>]
  ELSE [value |-> old, trace |-> <<>>]

\* PropertyModel.value setter, lines 43-53; callback says whether
\* on_value_changed is set.
PropertyModel_assign(cmp, old, value, callback) ==
  IF PropertyModel_not_equal(cmp, old, value)
  THEN LET stored == value IN
         [value |-> stored,
          trace |-> <<Event("store", value), Event("notify", stored)>>
                      \o (IF callback THEN <<Event("callback", value)>> ELSE <<>>)]
  ELSE [value |-> old, trace |-> <<>>]

\* PropertyModel.__init__(value, cmp); on_value_changed starts as None.
CInit ==
  /\ c_cmp \in {"eq", "close"}
  /\ c_value \in OptValues
  /\ c_callback = FALSE
  /\ c_trace = <<>>
  /\ c_old = c_value
  /\ c_assigned = c_value
  /\ c_nops = 0

\* model.value = v.
CAssign(v) ==
  /\ c_nops < MaxCellOps
  /\ c_nops' = c_nops + 1
  /\ LET r == PropertyModel_assign(c_cmp, c_value, v, c_callback) IN
       /\ c_value' = r.value
       /\ c_trace' = c_trace \o r.trace
  /\ c_old' = c_value
  /\ c_assigned' = v
  /\ UNCHANGED <<c_cmp, c_callback>>
  /\ UNCHANGED notC

\* The owner sets on_value_changed.
CSetCallback ==
  /\ c_nops < MaxCellOps
  /\ ~c_callback
  /\ c_nops' = c_nops + 1
  /\ c_callback' = TRUE
  /\ UNCHANGED <<c_cmp, c_value, c_trace, c_old, c_assigned>>
  /\ UNCHANGED notC

\* PropertyModel.close: on_value_changed = None.
CClose ==
  /\ c_nops < MaxCellOps
  /\ c_callback
  /\ c_nops' = c_nops + 1
  /\ c_callback' = FALSE
  /\ UNCHANGED <<c_cmp, c_value, c_trace, c_old, c_assigned>>
  /\ UNCHANGED notC

CNext ==
  \/ \E v \in OptValues : CAssign(v)
  \/ CSetCallback
  \/ CClose

\* =========================================================================
\* ValueChangeStreamReactor (Stream.py 468-495) over a ValueChangeStream.
\* r_queue is the asyncio.Queue __event_queue, r_at the position of the
\* consumer coroutine handed to run(): "none" (no task yet), "idle" (running
\* its own code between two calls on the reactor), "begin" (inside begin(),
\* at the await of line 491) or "next" (inside next_value_change(), at the
\* await of line 495).  r_built is the length of the stream's fire log when
\* the reactor was constructed, r_out logs every event taken off the queue
\* with the call that took it.
\* =========================================================================
\* A listener that puts the newest event at the head of the queue.
Reactor_value_changed_lifo(queue, value_change) == <<value_change>> \o queue

\* __value_changed: put_nowait on an unbounded FIFO queue.
Reactor_value_changed(queue, value_change) == Append(queue, value_change)

\* The listener called once for each fire of the stream, in fire order.
RECURSIVE Reactor_deliver(_, _)
Reactor_deliver(queue, fires) ==
  IF fires = <<>> THEN queue
  ELSE Reactor_deliver(Reactor_value_changed(queue, Head(fires)), Tail(fires))

\* The events the stream fired between the states s and s1.
NewFires(s, s1) == SubSeq(s1.fired, Len(s.fired) + 1, Len(s1.fired))

\* asyncio.Queue.get on a queue that holds an item.
Reactor_get(queue) == [item |-> Head(queue), queue |-> Tail(queue)]

\* A begin loop that leaves on the first event, whatever its state.
Reactor_begin_step_any(queue) ==
  LET g == Reactor_get(queue) IN
    [item |-> g.item, queue |-> g.queue, done |-> TRUE]

\* One turn of the loop of begin(): get an event, break on a BEGIN.
Reactor_begin_step(queue) ==
  LET g == Reactor_get(queue) IN
    [item |-> g.item, queue |-> g.queue, done |-> g.item.state = BEGIN]

Taken(by, item) == [by |-> by, event |-> item]

\* The input stream starts at the first value: the reactor treats all values
\* alike, and RSet reaches the others.
RInit ==
  /\ r_input = 1
  /\ r_stream \in {NewValueChangeStream, VCS_begin(NewValueChangeStream, r_input)}
  /\ r_built = Len(r_stream.fired)
  /\ r_queue = <<>>
  /\ r_out = <<>>
  /\ r_at = "none"
  /\ r_nops = 0

\* An operation on the stream that takes it from r_stream to s1: every fire
\* it makes reaches the reactor's listener before the operation returns.
RStreamOp(s1) ==
  /\ r_nops < MaxReactorOps
  /\ r_nops' = r_nops + 1
  /\ r_stream' = s1
  /\ r_queue' = Reactor_deliver(r_queue, NewFires(r_stream, s1))
  /\ UNCHANGED <<r_built, r_out, r_at>>

RBegin ==
  /\ RStreamOp(VCS_begin(r_stream, r_input))
  /\ UNCHANGED r_input
  /\ UNCHANGED notR

REnd ==
  /\ RStreamOp(VCS_end(r_stream, r_input))
  /\ UNCHANGED r_input
  /\ UNCHANGED notR

RSet(x) ==
  /\ x # r_input
  /\ RStreamOp(VCS_value_changed(r_stream, x))
  /\ r_input' = x
  /\ UNCHANGED notR

\* run(cfn): the consumer task is created.  With a task already there, the
\* assertion of line 485 raises and nothing changes.
RRun ==
  /\ r_at = "none"
  /\ r_at' = "idle"
  /\ UNCHANGED <<r_input, r_stream, r_built, r_queue, r_out, r_nops>>
  /\ UNCHANGED notR

\* The consumer calls await reactor.begin().
RCallBegin ==
  /\ r_at = "idle"
  /\ r_at' = "begin"
  /\ UNCHANGED <<r_input, r_stream, r_built, r_queue, r_out, r_nops>>
  /\ UNCHANGED notR

\* The get of line 491 completes; begin() returns or loops.
RBeginStep ==
  /\ r_at = "begin"
  /\ r_queue # <<>>
  /\ LET b == Reactor_begin_step(r_queue) IN
       /\ r_queue' = b.queue
       /\ r_out' = Append(r_out, Taken("begin", b.item))
       /\ r_at' = IF b.done THEN "idle" ELSE "begin"
  /\ UNCHANGED <<r_input, r_stream, r_built, r_nops>>
  /\ UNCHANGED notR

\* The consumer calls await reactor.next_value_change().
RCallNext ==
  /\ r_at = "idle"
  /\ r_at' = "next"
  /\ UNCHANGED <<r_input, r_stream, r_built, r_queue, r_out, r_nops>>
  /\ UNCHANGED notR

\* The get of line 495 completes; next_value_change() returns the event.
RNextStep ==
  /\ r_at = "next"
  /\ r_queue # <<>>
  /\ LET g == Reactor_get(r_queue) IN
       /\ r_queue' = g.queue
       /\ r_out' = Append(r_out, Taken("next", g.item))
       /\ r_at' = "idle"
  /\ UNCHANGED <<r_input, r_stream, r_built, r_nops>>
  /\ UNCHANGED notR

RNext ==
  \/ RBegin
  \/ REnd
  \/ \E x \in Values : RSet(x)
  \/ RRun
  \/ RCallBegin
  \/ RBeginStep
  \/ RCallNext
  \/ RNextStep

\* =========================================================================
\* A derived stream over a ValueStream and its weak listener.  Every derived
\* stream registers weak_partial(stub, self) on its upstream's value_stream
\* (Stream.py 142, 175, 211, 259, 363, 445).  w_kind names the class, w_state
\* holds what its listener reads and writes, w_sent logs the upstream's
\* fires and w_fired the derived stream's, w_built being the length of
\* w_fired when the constructor returned.  w_alive falls when the derived
\* stream is collected; w_listening tells whether its listener object is
\* still registered upstream.  w_after counts the upstream fires delivered to
\* a listener whose stream is gone.
\* =========================================================================
DerivedKinds == {"map", "combine", "debounce", "sample", "optional", "value_change"}

\* An OptionalStream that fires only what differs from its last fire.
OptionalStream_value_changed_deduped(last, value) ==
  LET out == IF Pred(value) THEN value ELSE None IN
    IF last # <<out>> THEN <<out>> ELSE <<>>

\* OptionalStream.__value_changed: what it fires; last is the one-element
\* sequence of its previous fire, which the code does not keep.
OptionalStream_value_changed(last, value) ==
  IF Pred(value) THEN <<value>> ELSE <<None>>

\* A value property that reports the last fire.
OptionalStream_value_last(fired) ==
  IF fired = <<>> THEN None ELSE fired[Len(fired)]

\* OptionalStream.value.
OptionalStream_value(fired) == None

Handled(state, fires, err) == [state |-> state, fires |-> fires, err |-> err]

\* The stub each class hands to weak_partial, called with the live stream.
Derived_handler(kind, s, value) ==
  CASE kind = "map" ->
         LET r == MapStream_update_value(s.value, value) IN
           Handled([value |-> r.value], r.fires, FALSE)
    [] kind = "combine" ->
         LET r == CombineLatest_handle_stream_value("default", s.values, 1, value) IN
           Handled([values |-> r.values, value |-> r.value], r.fires, FALSE)
    [] kind = "debounce" ->
         LET r == value_changed(s.holder, s.st, value, 0) IN
           Handled([holder |-> r.holder, st |-> r.st], <<>>, r.err)
    [] kind = "sample" ->
         Handled(set_pending_value(s, value), <<>>, FALSE)
    [] kind = "optional" ->
         Handled(s, OptionalStream_value_changed(s.last, value), FALSE)
    [] kind = "value_change" ->
         LET s1 == VCS_value_changed(s, value) IN
           Handled(s1, NewFires(s, s1), s1.err)

\* ReferenceCounting.weak_partial(fn, o): calls fn with o while o is alive and
\* does nothing once the weak reference to o is empty.
weak_partial(alive, s, called) ==
  IF alive THEN called ELSE Handled(s, <<>>, FALSE)

\* A registration that holds the stream strongly: the stub always runs.
Derived_listener_strong(kind, alive, s, value) ==
  Derived_handler(kind, s, value)

\* The listener registered upstream: weak_partial(stub, self).
Derived_listener(kind, alive, s, value) ==
  weak_partial(alive, s, Derived_handler(kind, s, value))

\* The constructor of the derived stream over an upstream holding value.
Derived_init(kind, value, begun) ==
  CASE kind = "map" ->
         LET r == MapStream_init(value) IN Handled([value |-> r.value], r.fires, FALSE)
    [] kind = "combine" ->
         LET r == CombineLatest_init("default", <<value>>) IN
           Handled([values |-> r.values, value |-> r.value], r.fires, FALSE)
    [] kind = "debounce" ->
         LET r == value_changed(None, NewStreamTask, value, 0) IN
           Handled([holder |-> r.holder, st |-> r.st], <<>>, r.err)
    [] kind = "sample" ->
         Handled([NewSampleValue EXCEPT !.value = value], <<>>, FALSE)
    [] kind = "optional" ->
         Handled([last |-> <<>>], OptionalStream_value_changed(<<>>, value), FALSE)
    [] kind = "value_change" ->
         LET s1 == IF begun THEN VCS_begin(NewValueChangeStream, value)
                   ELSE NewValueChangeStream IN
           Handled(s1, s1.fired, s1.err)

\* What weakref.finalize runs when the stream is collected: the timed streams
\* clear their StreamTask.
Derived_finalize(kind, s) ==
  IF kind = "debounce" THEN [s EXCEPT !.st = clear(s.st)] ELSE s

WInit ==
  \E kind \in DerivedKinds, v \in OptValues, begun \in BOOLEAN :
    LET c == Derived_init(kind, v, begun) IN
      /\ (begun => kind = "value_change")
      /\ w_kind = kind
      /\ w_input = v
      /\ w_alive = TRUE
      /\ w_listening = TRUE
      /\ w_state = c.state
      /\ w_sent = <<>>
      /\ w_fired = c.fires
      /\ w_built = Len(c.fires)
      /\ w_err = c.err
      /\ w_after = 0

\* The upstream ValueStream is assigned v; when it fires, it calls the
\* listener if that is still registered.
WSet(v) ==
  /\ Len(w_sent) < MaxWeakOps
  /\ ~w_err
  /\ LET u == ValueStream_set_value(w_input, v)
         r == IF u.fires # <<>> /\ w_listening
              THEN Derived_listener(w_kind, w_alive, w_state, v)
              ELSE Handled(w_state, <<>>, FALSE)
         s1 == IF w_kind = "optional" /\ r.fires # <<>>
               THEN [r.state EXCEPT !.last = r.fires] ELSE r.state
     IN /\ u.fires # <<>>
        /\ w_input' = u.value
        /\ w_sent' = w_sent \o u.fires
        /\ w_state' = s1
        /\ w_fired' = w_fired \o r.fires
        /\ w_err' = r.err
        /\ w_after' = IF w_listening /\ ~w_alive THEN w_after + 1 ELSE w_after
  /\ UNCHANGED <<w_kind, w_alive, w_listening, w_built>>
  /\ UNCHANGED notW

\* The last reference to the derived stream goes: it is collected and its
\* finalizer runs.  Its listener object is unregistered or stays registered.
WDestroy(dropped) ==
  /\ w_alive
  /\ w_alive' = FALSE
  /\ w_listening' = ~dropped
  /\ w_state' = Derived_finalize(w_kind, w_state)
  /\ UNCHANGED <<w_kind, w_input, w_sent, w_fired, w_built, w_err, w_after>>
  /\ UNCHANGED notW

WNext ==
  \/ \E v \in OptValues : WSet(v)
  \/ \E dropped \in BOOLEAN : WDestroy(dropped)

\* =========================================================================
\* Re-entrant delivery on a ValueStream (Stream.py 109-120).  The stream has
\* two listeners, called in subscription order e_order: "setter" assigns
\* e_react[v] to the stream whenever it is delivered v, "reader" only takes
\* the value.  e_got logs what each listener was delivered.  An assignment,
\* with every nested assignment and fire it causes, is one step.
\* =========================================================================
Listeners == {"setter", "reader"}

\* The reactions that settle: assigning the reaction to a reaction changes
\* nothing, so that the nesting ends.
Reactions == {f \in [OptValues -> OptValues] : \A v \in OptValues : f[f[v]] = f[v]}

RECURSIVE ValueStream_assign(_, _, _, _)
RECURSIVE Event_fire(_, _, _, _, _)

\* One listener is called with value; the setter assigns inside the call.
Listener_call(e, order, react, l, value) ==
  LET e1 == [e EXCEPT !.got[l] = Append(@, value)] IN
    IF l = "setter" THEN ValueStream_assign(e1, order, react, react[value]) ELSE e1

\* Event.fire(value): the listeners from place k on are called one after the
\* other, each call returning before the next one starts.
Event_fire(e, order, react, value, k) ==
  IF k > Len(order) THEN e
  ELSE Event_fire(Listener_call(e, order, react, order[k], value),
                  order, react, value, k + 1)

\* ValueStream.value setter, send_value and _send_value.
ValueStream_assign(e, order, react, value) ==
  IF e.value # value
  THEN Event_fire([e EXCEPT !.value = value], order, react, value, 1)
  ELSE e

EInit ==
  /\ e_value \in OptValues
  /\ e_order \in {<<"setter", "reader">>, <<"reader", "setter">>}
  /\ e_react \in Reactions
  /\ e_got = [l \in Listeners |-> <<>>]
  /\ e_nops = 0

\* An assignment from outside any delivery.
ESet(v) ==
  /\ e_nops < MaxEventOps
  /\ LET e == ValueStream_assign([value |-> e_value, got |-> e_got],
                                 e_order, e_react, v) IN
       /\ e_value' = e.value
       /\ e_got' = e.got
  /\ e_nops' = e_nops + 1
  /\ UNCHANGED <<e_order, e_react>>
  /\ UNCHANGED notE

ENext == \E v \in OptValues : ESet(v)

\* =========================================================================
\* Color (Color.py).  A color string is a sequence of lexemes, each standing
\* for a piece of the string that the code never looks inside: "1" is a
\* decimal digit, "f" a hexadecimal digit that is not decimal, "g" a letter
\* that is no hexadecimal digit, "inf" the float literal inf, and "rgb",
\* "rgba", "red", "transparent", "hex-color" and "foo" are the lower-case
\* words of those letters; "#", "(", ")", ",", " ", "/" and "%" are the
\* characters themselves.  A call returns Returned(value) or Raised(error).
\* k_color is the string of the Color object at hand, k_last the latest call
\* made on one, with the string it was made on and its outcome.
\* =========================================================================
Returned(value) == [raised |-> "none", value |-> value]
Raised(error) == [raised |-> error, value |-> <<>>]

Contains(seq, ch) == \E i \in 1..Len(seq) : seq[i] = ch
IndexOf(seq, ch) == CHOOSE i \in 1..Len(seq) : seq[i] = ch /\ \A j \in 1..(i - 1) : seq[j] # ch
Remove(seq, ch) == SelectSeq(seq, LAMBDA c : c # ch)
NonEmpty(pieces) == SelectSeq(pieces, LAMBDA piece : piece # <<>>)
AllSeqs(S, n) == UNION {[1..k -> S] : k \in 0..n}

\* str.split(sep) for a one-lexeme separator.
RECURSIVE Split(_, _)
Split(seq, sep) ==
  IF ~Contains(seq, sep) THEN <<seq>>
  ELSE LET i == IndexOf(seq, sep) IN
         <<SubSeq(seq, 1, i - 1)>> \o Split(SubSeq(seq, i + 1, Len(seq)), sep)

\* sep.join(pieces).
RECURSIVE Join(_, _)
Join(pieces, sep) ==
  IF pieces = <<>> THEN <<>>
  ELSE IF Len(pieces) = 1 THEN pieces[1]
  ELSE pieces[1] \o sep \o Join(Tail(pieces), sep)

SUPPORTED_TYPES == {"hex-color", "named-color", "transparent", "rgb", "rgba"}
NAME_TO_COLOR_TABLE == {<<"red">>}

\* __FUNCTION_PATTERN.fullmatch: one lexeme or more, "(", anything, ")" last.
Color_is_function(color) ==
  /\ Len(color) >= 3
  /\ color[Len(color)] = ")"
  /\ \E i \in 2..(Len(color) - 1) : color[i] = "("

\* Color.color_type.
Color_color_type(color) ==
  IF Len(color) = 0 THEN "unknown"
  ELSE IF Color_is_function(color)
       THEN LET name == SubSeq(color, 1, IndexOf(color, "(") - 1) IN
              IF Len(name) = 1 /\ name[1] \in SUPPORTED_TYPES THEN name[1]
              ELSE "unknown"
  ELSE IF color[1] = "#" THEN "hex-color"
  ELSE IF color \in NAME_TO_COLOR_TABLE THEN "named-color"
  ELSE IF color = <<"transparent">> THEN "transparent"
  ELSE "unknown"

\* Color.color_parameters.
Color_color_parameters(color) ==
  IF Color_is_function(color)
  THEN SubSeq(color, IndexOf(color, "(") + 1, Len(color) - 1)
  ELSE <<>>

\* __validate_hex_color: the length, then int(color, 16).
Color_validate_hex_color(color) ==
  LET digits == Tail(color) IN
    /\ Len(digits) \in {3, 4, 6, 8}
    /\ \A i \in 1..Len(digits) : digits[i] \in {"1", "f"}

\* __legacy_parameters_to_modern.
Color_legacy_parameters_to_modern(legacy_params) ==
  LET parameters == Split(Remove(legacy_params, " "), ",") IN
    IF \E i \in 1..Len(parameters) : parameters[i] = <<>>
    THEN Raised("ValueError")
    ELSE Returned(Join(parameters, <<" ">>))

\* __rgb_color_value_to_eight_bit on a parameter that is not empty: float()
\* raises ValueError on what is no number, int(round()) raises OverflowError
\* on inf and ValueError on the nan that a percentage of inf gives.
Color_rgb_color_value_to_eight_bit(value) ==
  LET percent == value[Len(value)] = "%"
      number == IF percent THEN SubSeq(value, 1, Len(value) - 1) ELSE value
  IN IF number = <<"inf">>
     THEN IF percent THEN Raised("ValueError") ELSE Raised("OverflowError")
     ELSE IF number # <<>> /\ \A i \in 1..Len(number) : number[i] = "1"
     THEN Returned(<<"1", "1">>)
     ELSE Raised("ValueError")

\* tuple(map(__rgb_color_value_to_eight_bit, parameters)): the first error
\* ends the conversion.
RECURSIVE Color_eight_bits(_)
Color_eight_bits(parameters) ==
  IF parameters = <<>> THEN Returned(<<>>)
  ELSE LET first == Color_rgb_color_value_to_eight_bit(Head(parameters)) IN
         IF first.raised # "none" THEN first
         ELSE LET rest == Color_eight_bits(Tail(parameters)) IN
                IF rest.raised # "none" THEN rest
                ELSE Returned(first.value \o rest.value)

DropSlash(split_parameters) ==
  IF Len(split_parameters) = 5 /\ split_parameters[4] = <<"/">>
  THEN SubSeq(split_parameters, 1, 3) \o <<split_parameters[5]>>
  ELSE split_parameters

IsPercent(parameter) == parameter[Len(parameter)] = "%"

\* __validate_rgb_parameters, called with parameters that passed
\* __legacy_parameters_to_modern.
Color_validate_rgb_parameters(color) ==
  LET parameters == Color_color_parameters(color)
      split_parameters ==
        IF Contains(parameters, ",")
        THEN NonEmpty(Split(Color_legacy_parameters_to_modern(parameters).value, " "))
        ELSE NonEmpty(Split(parameters, " "))
      count == Len(split_parameters)
      kept == DropSlash(split_parameters)
      checked == IF count = 5 THEN 3 ELSE count
  IN IF Contains(parameters, ",")
        /\ Len(Split(Remove(parameters, " "), ",")) # count THEN Returned(FALSE)
     ELSE IF count < 3 THEN Returned(FALSE)
     ELSE IF count = 5 /\ split_parameters[4] # <<"/">> THEN Returned(FALSE)
     ELSE IF count >= 6 THEN Returned(FALSE)
     ELSE IF \E i \in 1..checked : IsPercent(kept[i]) # IsPercent(kept[1])
     THEN Returned(FALSE)
     ELSE LET bits == Color_eight_bits(kept) IN
            IF bits.raised = "none" THEN Returned(TRUE)
            ELSE IF bits.raised = "ValueError" THEN Returned(FALSE)
            ELSE bits

\* __validate_function_parameters.
Color_validate_function_parameters(color) ==
  IF Contains(color, ",")
     /\ Color_legacy_parameters_to_modern(Color_color_parameters(color)).raised # "none"
  THEN Returned(FALSE)
  ELSE IF Color_color_type(color) \notin {"rgb", "rgba"}
  THEN Raised("NotImplementedError")
  ELSE Color_validate_rgb_parameters(color)

\* Color.is_valid.
Color_is_valid(color) ==
  IF Color_color_type(color) \notin SUPPORTED_TYPES THEN Returned(FALSE)
  ELSE IF Color_is_function(color) THEN Color_validate_function_parameters(color)
  ELSE IF Color_color_type(color) = "hex-color"
  THEN Returned(Color_validate_hex_color(color))
  ELSE Returned(TRUE)

\* __rgb_to_hex.
Color_rgb_to_hex(color) ==
  LET valid == Color_is_valid(color) IN
    IF valid.raised # "none" THEN valid
    ELSE IF ~valid.value THEN Raised("ValueError")
    ELSE LET parameters == Color_color_parameters(color)
             modern == IF Contains(parameters, ",")
                       THEN Color_legacy_parameters_to_modern(parameters).value
                       ELSE parameters
             bits == Color_eight_bits(DropSlash(NonEmpty(Split(modern, " "))))
         IN IF bits.raised # "none" THEN bits ELSE Returned(<<"#">> \o bits.value)

\* Color.to_hex_color and the converter it dispatches to.
Color_to_hex_color(color) ==
  LET type == Color_color_type(color) IN
    IF type \notin {"hex-color", "named-color", "transparent", "rgb", "rgba"}
    THEN Raised("NotImplementedError")
    ELSE IF type = "hex-color" THEN Returned(color)
    ELSE IF type = "named-color"
    THEN IF color \in NAME_TO_COLOR_TABLE
         THEN Returned(<<"#", "f", "f", "1", "1", "1", "1">>)
         ELSE Raised("KeyError")
    ELSE IF type = "transparent"
    THEN Returned(<<"#", "1", "1", "1", "1", "1", "1", "1", "1">>)
    ELSE Color_rgb_to_hex(color)

Doubled(seq) == [i \in 1..(2 * Len(seq)) |-> seq[(i + 1) \div 2]]

\* __hex_color_expander.
Color_hex_color_expander(color) ==
  LET c0 == Tail(color)
      c1 == IF Len(c0) = 3 THEN c0 \o <<"f">> ELSE c0
      c2 == IF Len(c1) = 4 THEN Doubled(c1) ELSE c1
      c3 == IF Len(c2) = 6 THEN c2 \o <<"f", "f">> ELSE c2
  IN <<"#">> \o c3

\* __rgb_color_expander, on parameters that passed is_valid.
Color_rgb_color_expander(color) ==
  LET params == Color_color_parameters(color)
      is_legacy == Contains(params, ",")
      spaced == [i \in 1..Len(params) |-> IF params[i] = "," THEN " " ELSE params[i]]
      p0 == NonEmpty(Split(spaced, " "))
      p1 == IF Len(p0) = 3 THEN Append(p0, <<"1", "1", "1">>) ELSE p0
      p2 == IF Len(p1) = 4 THEN SubSeq(p1, 1, 3) \o <<<<"/">>, p1[4]>> ELSE p1
      p3 == IF is_legacy THEN SubSeq(p2, 1, 3) \o SubSeq(p2, 5, Len(p2)) ELSE p2
      joined == IF is_legacy THEN Join(p3, <<",", " ">>) ELSE Join(p3, <<" ">>)
  IN <<Color_color_type(color), "(">> \o joined \o <<")">>

\* Color.to_expanded_notation.
Color_to_expanded_notation(color) ==
  LET type == Color_color_type(color) IN
    IF type \notin {"hex-color", "rgb", "rgba"} THEN Raised("NotImplementedError")
    ELSE LET valid == Color_is_valid(color) IN
           IF valid.raised # "none" THEN valid
           ELSE IF ~valid.value THEN Raised("ValueError")
           ELSE IF type = "hex-color" THEN Returned(Color_hex_color_expander(color))
           ELSE Returned(Color_rgb_color_expander(color))

\* The strings a Color is constructed with.
ColorWords == {<<>>, <<"red">>, <<"transparent">>, <<"foo">>}
HexColors(len) == {<<"#">> \o digits : digits \in AllSeqs({"1", "f", "g"}, len)}
FunctionNames == {"rgb", "rgba", "hex-color", "foo"}
ParamTokens == {<<"1">>, <<"1", "%">>, <<"g">>, <<"inf">>, <<"/">>, <<>>}
FunctionColors(n) ==
  {<<name, "(">> \o Join(tokens, <<sep>>) \o <<")">> :
     name \in FunctionNames, tokens \in AllSeqs(ParamTokens, n),
     sep \in {" ", ","}}

Called(op, color, outcome) == [op |-> op, color |-> color, raised |-> outcome.raised]

KInit ==
  /\ k_color \in ColorWords \cup HexColors(MaxHexLen) \cup FunctionColors(MaxParams)
  /\ k_last = Called("init", k_color, Returned(k_color))
  /\ k_nops = 0

\* A call on the Color at hand; the Color it returns is the one at hand next.
KCall(op, outcome) ==
  /\ k_nops < MaxColorOps
  /\ k_nops' = k_nops + 1
  /\ k_last' = Called(op, k_color, outcome)
  /\ k_color' = IF outcome.raised = "none" THEN outcome.value ELSE k_color

KToHex ==
  /\ KCall("to_hex_color", Color_to_hex_color(k_color))
  /\ UNCHANGED notK

KExpand ==
  /\ KCall("to_expanded_notation", Color_to_expanded_notation(k_color))
  /\ UNCHANGED notK

KNext == KToHex \/ KExpand

\* =========================================================================
\* A diamond of synchronous streams (Stream.py 92-189)
\* =========================================================================
\* M = MapStream(A, MapFn) and C = CombineLatestStream([A, M]) over one
\* ValueStream A.  M is built before C, so M's listener on A is subscribed
\* before the listener of C's slot 1, and A's event calls them in that order.
\* x_fired logs what C has fired since its constructor returned.

\* M's listener on A: update_value, whose send_value fires M's value_stream,
\* on which the listener of C's slot 2 runs before update_value returns.
Diamond_map_listener(map, values, value) ==
  LET m == MapStream_update_value(map, value) IN
    IF m.fires = <<>>
    THEN [map |-> m.value, values |-> values, fires |-> <<>>]
    ELSE LET c == CombineLatest_handle_stream_value("default", values, 2,
                                                    m.fires[1])
         IN [map |-> m.value, values |-> c.values, fires |-> c.fires]

\* The listener of C's slot 1 on A.
Diamond_combine_listener(map, values, value) ==
  LET c == CombineLatest_handle_stream_value("default", values, 1, value) IN
    [map |-> map, values |-> c.values, fires |-> c.fires]

\* A's value_stream.fire(value): its listeners run in subscription order,
\* each to completion.
Diamond_fire(map, values, value) ==
  LET first == Diamond_map_listener(map, values, value)
      second == Diamond_combine_listener(first.map, first.values, value)
  IN [map |-> second.map, values |-> second.values,
      fires |-> first.fires \o second.fires]

XInit ==
  \E a0 \in OptValues :
    LET m == MapStream_init(a0)
        c == CombineLatest_init("default", <<a0, m.value>>)
    IN /\ x_a = a0
       /\ x_map = m.value
       /\ x_values = c.values
       /\ x_fired = <<>>
       /\ x_nops = 0

\* A.value = v.
XSetA(v) ==
  /\ x_nops < MaxDiamondOps
  /\ x_nops' = x_nops + 1
  /\ LET s == ValueStream_set_value(x_a, v) IN
       /\ x_a' = s.value
       /\ IF s.fires = <<>>
          THEN UNCHANGED <<x_map, x_values, x_fired>>
          ELSE LET r == Diamond_fire(x_map, x_values, s.fires[1]) IN
                 /\ x_map' = r.map
                 /\ x_values' = r.values
                 /\ x_fired' = x_fired \o r.fires
  /\ UNCHANGED notX

XNext == \E v \in OptValues : XSetA(v)

\* =========================================================================
\* The lifetime of ValueChangeStreamReactors (Stream.py 468-486)
\* =========================================================================
\* NumReactors reactors share one event loop, whose tasks are l_tasks.  A
\* reactor holds its consumer task in __task, and weakref.finalize holds the
\* arguments it was given when the reactor was constructed.  A reactor is
\* finalized when it is collected (its consumer task and its queue form a
\* reference cycle the loop does not hold) or when the interpreter exits.

\* __init__: __task is None, and weakref.finalize is handed the value __task
\* has at that moment.
Reactor_new ==
  LET task == None IN [alive |-> TRUE, task |-> task, captured |-> task]

\* run(cfn): err is the assertion of line 485; otherwise the loop creates the
\* consumer task and __task holds it.
Reactor_run(r, tasks) ==
  IF r.task # None
  THEN [r |-> r, tasks |-> tasks, err |-> TRUE]
  ELSE [r |-> [r EXCEPT !.task = Len(tasks) + 1],
        tasks |-> Append(tasks, [state |-> "pending", due |-> None]),
        err |-> FALSE]

\* finalize(task, s), called with the arguments weakref.finalize holds.
Reactor_finalize(captured, tasks) ==
  IF captured # None THEN CancelTask(tasks, captured) ELSE tasks

Reactors == 1..NumReactors

LInit ==
  /\ l_reactors = [i \in Reactors |-> Reactor_new]
  /\ l_tasks = <<>>

\* run(cfn) on reactor i, which has no consumer task yet.
LRun(i) ==
  /\ l_reactors[i].alive
  /\ LET r == Reactor_run(l_reactors[i], l_tasks) IN
       /\ ~r.err
       /\ l_reactors' = [l_reactors EXCEPT ![i] = r.r]
       /\ l_tasks' = r.tasks
  /\ UNCHANGED notL

\* The consumer coroutine of reactor i returns.
LFinish(i) ==
  /\ l_reactors[i].task # None
  /\ l_tasks[l_reactors[i].task].state = "pending"
  /\ l_tasks' = [l_tasks EXCEPT ![l_reactors[i].task].state = "done"]
  /\ UNCHANGED l_reactors
  /\ UNCHANGED notL

\* Reactor i is finalized: the callback registered with weakref.finalize runs.
LFinalize(i) ==
  /\ l_reactors[i].alive
  /\ l_reactors' = [l_reactors EXCEPT ![i].alive = FALSE]
  /\ l_tasks' = Reactor_finalize(l_reactors[i].captured, l_tasks)
  /\ UNCHANGED notL

LNext ==
  \/ \E i \in Reactors : LRun(i)
  \/ \E i \in Reactors : LFinish(i)
  \/ \E i \in Reactors : LFinalize(i)

\* A component left alone: its state right after construction, never changed.
TIdle == t_task = NewStreamTask /\ t_err = FALSE
DIdle ==
  /\ d_now = 0 /\ d_input = 1 /\ d_value_holder = 1
  /\ d_debounce_task = value_changed(None, NewStreamTask, 1, 0).st
  /\ d_alive = TRUE /\ d_err = FALSE /\ d_fired = <<>> /\ d_burst = NoBurst
  /\ d_seen = [init |-> 1, changed |-> FALSE]

VIdle == v_input = 1 /\ v_init = 1 /\ v_stream = NewValueChangeStream /\ v_ops = <<>>
MIdle ==
  /\ m_kind = "ValueStream" /\ m_cmp = "eq" /\ m_source = None /\ m_value = None
  /\ m_open = TRUE /\ m_nfires = 0 /\ m_last_fired = None
  /\ m_listening = TRUE /\ m_refs = [added |-> 1, removed |-> 0]
  /\ m_notes = 0 /\ m_after = 0
FIdle ==
  LET m == handle_value_func([task |-> None, task_to_complete |-> None,
                              tasks |-> <<>>, ready |-> <<>>], 1) IN
    /\ f_task = m.task /\ f_task_to_complete = m.task_to_complete
    /\ f_tasks = m.tasks /\ f_ready = m.ready
    /\ f_value = None /\ f_open = TRUE /\ f_landed = <<>>

GIdle ==
  /\ g_a = 1 /\ g_b = None /\ g_assigned = <<>>
  /\ g_map = MapStream_init(1).value
  /\ g_values = <<1, None>> /\ g_combine = <<1, None>>
  /\ g_prop = None /\ g_pvalue = None
  /\ g_fired = [a |-> <<>>, b |-> <<>>, map |-> <<>>, combine |-> <<>>,
                prop |-> <<>>]
  /\ g_built = [a0 |-> 1, b0 |-> None, fn |-> "default",
                map_fires |-> 0, combine_fires |-> 0]
  /\ g_nops = 0
SIdle ==
  /\ s_now = 0 /\ s_input = 1 /\ s_sample_value = [NewSampleValue EXCEPT !.value = 1]
  /\ s_sample_task = create_task(NewStreamTask, Period).st
  /\ s_alive = TRUE /\ s_fired = <<>> /\ s_seen = NotSeen

PIdle ==
  /\ p_cmp = "eq" /\ p_props = [x \in Objects |-> None] /\ p_source = None
  /\ p_object = None /\ p_listeners = {} /\ p_value = None /\ p_fired = <<>>
  /\ p_op = "init"

CIdle ==
  /\ c_cmp = "eq" /\ c_value = None /\ c_callback = FALSE /\ c_trace = <<>>
  /\ c_old = None /\ c_assigned = None /\ c_nops = 0

RIdle ==
  /\ r_input = 1 /\ r_stream = NewValueChangeStream /\ r_built = 0
  /\ r_queue = <<>> /\ r_out = <<>> /\ r_at = "none"
  /\ r_nops = 0

WIdle ==
  /\ w_kind = "map" /\ w_input = 1 /\ w_alive = TRUE /\ w_listening = TRUE
  /\ w_state = Derived_init("map", 1, FALSE).state /\ w_sent = <<>>
  /\ w_fired = Derived_init("map", 1, FALSE).fires
  /\ w_built = 1 /\ w_err = FALSE /\ w_after = 0

EIdle ==
  /\ e_value = None /\ e_order = <<"setter", "reader">>
  /\ e_react = [v \in OptValues |-> v]
  /\ e_got = [l \in Listeners |-> <<>>] /\ e_nops = 0

KIdle ==
  /\ k_color = <<>> /\ k_last = Called("init", <<>>, Returned(<<>>)) /\ k_nops = 0

XIdle ==
  /\ x_a = 1 /\ x_map = MapStream_init(1).value
  /\ x_values = <<1, MapStream_init(1).value>>
  /\ x_fired = <<>> /\ x_nops = 0

LIdle ==
  /\ l_reactors = [i \in Reactors |-> Reactor_new]
  /\ l_tasks = <<>>

InitTask == TInit /\ DIdle /\ VIdle /\ MIdle /\ FIdle /\ GIdle /\ SIdle /\ PIdle /\ CIdle /\ RIdle /\ WIdle /\ EIdle /\ KIdle /\ XIdle /\ LIdle
SpecTask == InitTask /\ [][TNext]_vars

InitDebounce == DInit /\ TIdle /\ VIdle /\ MIdle /\ FIdle /\ GIdle /\ SIdle /\ PIdle /\ CIdle /\ RIdle /\ WIdle /\ EIdle /\ KIdle /\ XIdle /\ LIdle
SpecDebounce == InitDebounce /\ [][DNext]_vars

InitValueChange == VInit /\ TIdle /\ DIdle /\ MIdle /\ FIdle /\ GIdle /\ SIdle /\ PIdle /\ CIdle /\ RIdle /\ WIdle /\ EIdle /\ KIdle /\ XIdle /\ LIdle
SpecValueChange == InitValueChange /\ [][VNext]_vars

InitValueModel == MInit /\ TIdle /\ DIdle /\ VIdle /\ FIdle /\ GIdle /\ SIdle /\ PIdle /\ CIdle /\ RIdle /\ WIdle /\ EIdle /\ KIdle /\ XIdle /\ LIdle
SpecValueModel == InitValueModel /\ [][MNext]_vars

InitFuncModel == FInit /\ TIdle /\ DIdle /\ VIdle /\ MIdle /\ GIdle /\ SIdle /\ PIdle /\ CIdle /\ RIdle /\ WIdle /\ EIdle /\ KIdle /\ XIdle /\ LIdle
SpecFuncModel == InitFuncModel /\ [][FNext]_vars

InitGraph == GInit /\ TIdle /\ DIdle /\ VIdle /\ MIdle /\ FIdle /\ SIdle /\ PIdle /\ CIdle /\ RIdle /\ WIdle /\ EIdle /\ KIdle /\ XIdle /\ LIdle
SpecGraph == InitGraph /\ [][GNext]_vars

InitSample == SInit /\ TIdle /\ DIdle /\ VIdle /\ MIdle /\ FIdle /\ GIdle /\ PIdle /\ CIdle /\ RIdle /\ WIdle /\ EIdle /\ KIdle /\ XIdle /\ LIdle
SpecSample == InitSample /\ [][SNext]_vars

InitProperty == PInit /\ TIdle /\ DIdle /\ VIdle /\ MIdle /\ FIdle /\ GIdle /\ SIdle /\ CIdle /\ RIdle /\ WIdle /\ EIdle /\ KIdle /\ XIdle /\ LIdle
SpecProperty == InitProperty /\ [][PNext]_vars

InitPropertyModel ==
  CInit /\ TIdle /\ DIdle /\ VIdle /\ MIdle /\ FIdle /\ GIdle /\ SIdle /\ PIdle /\ RIdle /\ WIdle /\ EIdle /\ KIdle /\ XIdle /\ LIdle
SpecPropertyModel == InitPropertyModel /\ [][CNext]_vars

InitReactor ==
  RInit /\ TIdle /\ DIdle /\ VIdle /\ MIdle /\ FIdle /\ GIdle /\ SIdle /\ PIdle /\ CIdle /\ WIdle /\ EIdle /\ KIdle /\ XIdle /\ LIdle
SpecReactor == InitReactor /\ [][RNext]_vars

InitWeak ==
  WInit /\ TIdle /\ DIdle /\ VIdle /\ MIdle /\ FIdle /\ GIdle /\ SIdle /\ PIdle /\ CIdle /\ RIdle /\ EIdle /\ KIdle /\ XIdle /\ LIdle
SpecWeak == InitWeak /\ [][WNext]_vars

InitEvent ==
  EInit /\ TIdle /\ DIdle /\ VIdle /\ MIdle /\ FIdle /\ GIdle /\ SIdle /\ PIdle /\ CIdle /\ RIdle /\ WIdle /\ KIdle /\ XIdle /\ LIdle
SpecEvent == InitEvent /\ [][ENext]_vars

InitColor ==
  KInit /\ TIdle /\ DIdle /\ VIdle /\ MIdle /\ FIdle /\ GIdle /\ SIdle /\ PIdle /\ CIdle /\ RIdle /\ WIdle /\ EIdle /\ XIdle /\ LIdle
SpecColor == InitColor /\ [][KNext]_vars

InitDiamond ==
  XInit /\ TIdle /\ DIdle /\ VIdle /\ MIdle /\ FIdle /\ GIdle /\ SIdle /\ PIdle /\ CIdle /\ RIdle /\ WIdle /\ EIdle /\ KIdle /\ LIdle
SpecDiamond == InitDiamond /\ [][XNext]_vars

InitLifetime ==
  LInit /\ TIdle /\ DIdle /\ VIdle /\ MIdle /\ FIdle /\ GIdle /\ SIdle /\ PIdle /\ CIdle /\ RIdle /\ WIdle /\ EIdle /\ KIdle /\ XIdle
SpecLifetime == InitLifetime /\ [][LNext]_vars

\* Every component, interleaved.
Init ==
  /\ TInit /\ DInit /\ VInit /\ MInit /\ FInit /\ GInit /\ SInit /\ PInit /\ CInit
  /\ RInit /\ WInit /\ EInit /\ KInit /\ XInit /\ LInit
Next ==
  \/ TNext \/ DNext \/ VNext \/ MNext \/ FNext \/ GNext \/ SNext \/ PNext \/ CNext
  \/ RNext \/ WNext \/ ENext \/ KNext \/ XNext \/ LNext
Spec == Init /\ [][Next]_vars

\* The event loop runs every callback and task step it has been handed, and
\* every worker call returns.
SpecFuncModelFair ==
  /\ InitFuncModel /\ [][FNext]_vars
  /\ WF_vars(FHandle) /\ WF_vars(FStart) /\ WF_vars(FResume) /\ WF_vars(FCancelled)
  /\ \A i \in 1..MaxEvals : WF_vars(FWorkerDone(i))

\* The event loop resumes a consumer whose Queue.get can complete.
SpecReactorFair ==
  InitReactor /\ [][RNext]_vars /\ WF_vars(RBeginStep) /\ WF_vars(RNextStep)

\* Time passes, and the event loop wakes every sleep that is due, throws
\* every requested cancellation and runs every done-callback.
SpecDebounceFair ==
  /\ InitDebounce /\ [][DNext]_vars
  /\ WF_vars(DTick)
  /\ \A i \in 1..(MaxTime + 2) :
       WF_vars(DDelayFire(i)) /\ WF_vars(DCancelled(i)) /\ WF_vars(DZero(i))

\* The event loop runs every callback it has scheduled with call_soon.
SpecTaskFair == InitTask /\ [][TNext]_vars /\ \A i \in 1..MaxTasks : WF_vars(TZero(i))

\* =========================================================================
\* Claims
\* =========================================================================

\* C1 as stated: every result assigned to value is the result of the function
\* submitted last; once a newer function has been submitted no result of an
\* earlier, different one lands.
C1_OnlyLatestResultLands ==
  \A k \in DOMAIN f_landed :
    Result(f_tasks[f_landed[k].task].func) = Result(f_tasks[f_landed[k].latest].func)

\* C2: a burst of input changes that starts with the delay task idle and
\* stays within one period of its first change makes the DebounceStream fire
\* exactly once (never twice, and once the period is over the fire has
\* happened while the stream is alive), carrying the last value of the burst.
C2_BurstFiresOnceWithLast ==
  (d_burst.on /\ d_burst.win) =>
    /\ d_burst.fires <= 1
    /\ (d_burst.fires = 1 => d_burst.fire_value = d_burst.last_value)
    /\ (d_alive /\ d_now > d_burst.start + Period => d_burst.fires = 1)

\* A burst of changes at different times, inside the window, has been fired.
C2_Witness ==
  /\ d_burst.on /\ d_burst.win /\ d_burst.fires = 1
  /\ d_burst.last_at > d_burst.start

\* C3 as stated: the fire that answers a burst comes one period after the
\* last change of the burst.
C3_FireOnePeriodAfterLast ==
  (d_burst.on /\ d_burst.win /\ d_burst.fires = 1) =>
    d_burst.fire_at = d_burst.last_at + Period

\* C3, amended: the fire that answers a burst comes one period after the
\* first change of the burst, the one that found the delay task idle; until
\* then the burst is not answered.
C3_FireOnePeriodAfterFirst ==
  d_burst.on =>
    /\ (d_burst.fires >= 1 => d_burst.fire_at = d_burst.start + Period)
    /\ (d_burst.fires = 0 /\ d_alive => d_now <= d_burst.start + Period)

\* A burst whose last change came later than its first has been fired.
C3_Witness ==
  /\ d_burst.on /\ d_burst.fires = 1
  /\ d_burst.last_at > d_burst.start
  /\ d_burst.fire_at < d_burst.last_at + Period

\* C4: at most one debounce_delay is pending at any time, and an input
\* change that arrives while a task is held only overwrites the stashed
\* value: the tasks stay as they were.
C4_AtMostOnePendingFire ==
  [][ /\ Cardinality(PendingTasks(d_debounce_task')) <= 1
      /\ ((\E v \in Values : DSet(v)) /\ d_alive /\ is_active(d_debounce_task)
            => /\ d_debounce_task' = d_debounce_task
               /\ d_value_holder' = d_input'
               /\ ~d_err') ]_vars

\* A change has arrived while the delay task was sleeping.
C4_Witness ==
  /\ Cardinality(PendingTasks(d_debounce_task)) = 1
  /\ d_burst.on /\ d_burst.last_at > d_burst.start
  /\ d_burst.fires = 0

FiredShape == [k \in DOMAIN v_stream.fired |->
                 <<v_stream.fired[k].state, v_stream.fired[k].value>>]

Scenario(x, y) ==
  v_ops = <<Op("begin", None), Op("set", x), Op("set", y), Op("end", None)>>

\* C5 as stated: begin(); set x; set y; end() fires exactly three times, in
\* the order BEGIN(x0), CHANGE, END(y).
C5_ScenarioFiresThree ==
  \A x, y \in Values :
    Scenario(x, y) =>
      /\ Len(v_stream.fired) = 3
      /\ FiredShape[1] = <<BEGIN, v_init>>
      /\ FiredShape[2][1] = CHANGE
      /\ FiredShape[3] = <<END, y>>

\* C5, amended: begin(); set x; set y; end() fires BEGIN(x0), then one CHANGE
\* for each of the two sets that changes the input value, carrying the new
\* value, then END(y): four fires when both sets change the value, three when
\* one does, two when none does.
C5_ScenarioFiresPerChange ==
  \A x, y \in Values :
    Scenario(x, y) =>
      FiredShape = <<<<BEGIN, v_init>>>>
                   \o (IF x # v_init THEN <<<<CHANGE, x>>>> ELSE <<>>)
                   \o (IF y # x THEN <<<<CHANGE, y>>>> ELSE <<>>)
                   \o <<<<END, y>>>>

\* The scenario has run with two sets that both changed the input value.
C5_Witness ==
  \E x, y \in Values :
    Scenario(x, y) /\ x # v_init /\ y # x /\ Len(v_stream.fired) = 4

LastOp == v_ops'[Len(v_ops')].op

\* C6: the ValueChangeStream fires only while active.  A step that fires is a
\* begin() or starts in an active stream; an end() or an input change made
\* while the stream is not active fires nothing; and no operation raises.
C6_FiresOnlyWhileActive ==
  [][ /\ (v_stream'.fired # v_stream.fired => LastOp = "begin" \/ v_stream.is_active)
      /\ (~v_stream.is_active /\ LastOp \in {"end", "set"}
            => v_stream'.fired = v_stream.fired)
      /\ ~v_stream'.err ]_vars

\* An end() and an input change have been made with the stream not active,
\* after an earlier begin()...end() that fired.
C6_Witness ==
  /\ ~v_stream.is_active
  /\ Len(v_ops) >= 4
  /\ v_ops[1].op = "begin" /\ v_ops[2].op = "end"
  /\ v_ops[3].op = "end"
  /\ v_ops[4].op = "set" /\ v_ops[4].arg # v_init
  /\ Len(v_stream.fired) = 2

\* C7 as stated: at most one task of a StreamTask is pending with no
\* cancellation requested.
C7_AtMostOnePendingTask ==
  Cardinality(PendingTasks(t_task)) <= 1

\* C8: create_task called while a task is held raises the assertion error
\* and changes nothing: same handle, same tasks, none cancelled.
C8_CreateWhileActiveFails ==
  [][ TCreate /\ is_active(t_task) => t_err' /\ t_task' = t_task ]_vars

\* create_task has just failed on a StreamTask that holds a task.
C8_Witness ==
  t_err /\ is_active(t_task) /\ t_task.tasks[t_task.task].state = "pending"

HeldTaskFinished ==
  is_active(t_task) /\ t_task.tasks[t_task.task].state \in {"done", "cancelled"}

\* C9: once the held task has finished, normally or by cancellation, the
\* handle is eventually cleared and a create_task then succeeds.
C9_HandleEventuallyCleared ==
  HeldTaskFinished ~> (~is_active(t_task) /\ ~create_task(t_task, None).err)

\* The held task has ended by cancellation and its callback has not run.
C9_Witness ==
  is_active(t_task) /\ t_task.tasks[t_task.task].state = "cancelled"

\* C10 as stated, for a model with the default comparator: after an upstream
\* fire, the open model's value equals the upstream stream's value, whatever
\* the upstream stream.
C10_ModelEqualsStreamValue ==
  (m_open /\ m_nfires > 0 /\ m_cmp = "eq") =>
    m_value = StreamValue(m_kind, m_source)

\* C10, amended: with the default comparator (operator.eq), after an upstream
\* fire the open model's value equals the value that fire carried; it equals
\* the upstream's value property when that property returns the value fired
\* last (a ValueStream; not an OptionalStream, whose value is always None).
C10_ModelEqualsLastFired ==
  (m_open /\ m_nfires > 0 /\ m_cmp = "eq") =>
    /\ m_value = m_last_fired
    /\ (m_kind = "ValueStream" => m_value = StreamValue(m_kind, m_source))

\* An open model under operator.eq has followed two fires of a ValueStream.
C10_Witness ==
  /\ m_open /\ m_nfires >= 2 /\ m_cmp = "eq" /\ m_kind = "ValueStream"
  /\ m_value # None /\ m_value = m_source

Last(seq) == seq[Len(seq)]

\* C11: for ValueStream, MapStream, CombineLatestStream and
\* PropertyChangedEventStream, once the stream has fired, its value property
\* equals the payload it fired last.
C11_ValueIsLastFired ==
  /\ g_fired.a # <<>> => g_a = Last(g_fired.a)
  /\ g_fired.map # <<>> => g_map = Last(g_fired.map)
  /\ g_fired.combine # <<>> => g_combine = Last(g_fired.combine)
  /\ g_fired.prop # <<>> => g_pvalue = Last(g_fired.prop)

\* Each of the four streams has fired after its construction.
C11_Witness ==
  /\ g_fired.a # <<>>
  /\ Len(g_fired.map) > g_built.map_fires
  /\ Len(g_fired.combine) > g_built.combine_fires
  /\ g_fired.prop # <<>>

\* C12 as stated: once a DebounceStream has fired, its value property (line
\* 232: the holder's value) equals the payload it fired last, also while a
\* delayed fire is pending.
C12_DebounceValueIsLastFired ==
  d_fired # <<>> => d_value_holder = Last(d_fired).value

\* C13 as stated: once a ValueChangeStream has fired, its value property holds
\* the ValueChange (state and value) it fired last, also after upstream
\* changes or end() calls made while it is inactive.
C13_ValueChangeIsLastFired ==
  v_stream.fired # <<>> =>
    /\ v_stream.value.state = Last(v_stream.fired).state
    /\ v_stream.value.value = Last(v_stream.fired).value

\* seq with every element removed that equals the element before it, prev
\* standing before the first.
RECURSIVE Dedup(_, _)
Dedup(prev, seq) ==
  IF seq = <<>> THEN <<>>
  ELSE IF Head(seq) = prev THEN Dedup(prev, Tail(seq))
  ELSE <<Head(seq)>> \o Dedup(Head(seq), Tail(seq))

\* C14: the fires of ValueStream A are exactly the assigned values that
\* differed from the value held just before the assignment, each once and in
\* order; the value held is the one assigned last, so an assignment of the
\* held value fired nothing and changed nothing.
C14_FiresOncePerNewValue ==
  /\ g_fired.a = Dedup(g_built.a0, g_assigned)
  /\ g_a = IF g_assigned = <<>> THEN g_built.a0 ELSE Last(g_assigned)

\* Three assignments to A of which one repeated the held value.
C14_Witness ==
  /\ Len(g_assigned) = 3
  /\ Len(g_fired.a) = 2

MapSeq(seq) == [i \in 1..Len(seq) |-> MapFn(seq[i])]

\* The fires a stream made after its constructor returned.
FiredSince(log, built) == SubSeq(log, built + 1, Len(log))

\* C15: when A fires v1..vn, the MapStream fires MapFn(v1)..MapFn(vn) with
\* every value removed that equals the one before it, the value computed at
\* construction standing before MapFn(v1).
C15_MapFiresDedupedImages ==
  FiredSince(g_fired.map, g_built.map_fires)
    = Dedup(MapFn(g_built.a0), MapSeq(g_fired.a))

\* A fired twice; the first image equalled the value computed at construction
\* and was dropped, the second was fired.
C15_Witness ==
  /\ Len(g_fired.a) = 2
  /\ MapFn(g_fired.a[1]) = MapFn(g_built.a0)
  /\ FiredSince(g_fired.map, g_built.map_fires) = <<MapFn(g_fired.a[2])>>

\* C16: a step in which upstream i (A is 1, B is 2) fires v overwrites slot i
\* with v, leaves the other slot alone and appends exactly one fire, the
\* combiner applied to the slots, to the CombineLatestStream's fires, whether
\* or not it equals the previous combined value; a step without an upstream
\* fire changes neither the slots nor the fires.
C16_OneFirePerUpstreamFire ==
  [][ LET fa == FiredSince(g_fired'.a, Len(g_fired.a))
          fb == FiredSince(g_fired'.b, Len(g_fired.b))
          slots == IF fa # <<>> THEN [g_values EXCEPT ![1] = fa[1]]
                   ELSE IF fb # <<>> THEN [g_values EXCEPT ![2] = fb[1]]
                   ELSE g_values
      IN
        /\ Len(fa) + Len(fb) <= 1
        /\ g_values' = slots
        /\ FiredSince(g_fired'.combine, Len(g_fired.combine))
             = IF Len(fa) + Len(fb) = 1
               THEN <<value_fn(g_built.fn, slots)>>
               ELSE <<>> ]_vars

\* B fired twice under the "max" combiner and the CombineLatestStream fired
\* the same combined value both times, equal to the one fired at construction.
C16_Witness ==
  /\ g_built.fn = "max"
  /\ Len(g_fired.b) = 2
  /\ g_fired.combine = <<g_combine, g_combine, g_combine>>

\* The example of C16 under the default combiner.
C16_Example ==
  /\ g_built.a0 = 1 /\ g_built.fn = "default"
  /\ g_fired.a = <<2>> /\ g_fired.b = <<3>>
  /\ g_fired.combine = <<<<1, 0>>, <<2, 0>>, <<2, 3>>>>

\* C17: the constructor of the CombineLatestStream over [A, B] fired exactly
\* once, the combiner applied to the values A and B held then, and right
\* after construction slot 1 holds A's value and slot 2 holds B's.
C17_ConstructionFillsAndFiresOnce ==
  /\ g_built.combine_fires = 1
  /\ g_fired.combine[1] = value_fn(g_built.fn, <<g_built.a0, g_built.b0>>)
  /\ g_nops = 0 => g_values = <<g_a, g_b>>

\* Right after construction over streams holding different values, under the
\* default combiner: one fire, the tuple in list order.
C17_Witness ==
  /\ g_nops = 0
  /\ g_built.fn = "default"
  /\ g_a # g_b
  /\ g_fired.combine = <<<<g_a, g_b>>>>

\* C18: once the input of a SampleStream has fired and has not fired again,
\* the stream fires nothing before the next tick of its loop, which comes
\* within one period; that first tick fires the input's value once, and the
\* ticks after it fire nothing.
C18_OneSetFiresAtNextTickOnly ==
  s_seen.set =>
    /\ s_seen.wakes = 0 => s_seen.fires = 0
    /\ (s_seen.wakes = 0 /\ s_alive) => s_now <= s_seen.set_at + Period
    /\ s_seen.wakes >= 1 =>
         /\ s_seen.fires = 1
         /\ Last(s_fired).value = s_input
         /\ Last(s_fired).at = s_seen.woke_at

\* Two ticks have passed since the input fired last: the first fired, the
\* second did not.
C18_Witness ==
  /\ s_seen.set /\ s_alive
  /\ s_seen.wakes = 2
  /\ s_seen.fires = 1

\* C19: a step appends at most one fire to a SampleStream's fires; a step
\* that appends one is a tick of sample_loop before which the input fired
\* since the previous tick, and the fire carries the value the input fired
\* last; a tick before which the input fired, once or several times, appends
\* exactly one fire.
C19_FiresOnlyAtTickAfterChange ==
  [][ LET new == FiredSince(s_fired', Len(s_fired))
          tick == s_seen'.ticks = s_seen.ticks + 1
      IN
        /\ Len(new) <= 1
        /\ new # <<>> =>
             /\ tick
             /\ s_seen.sets > 0
             /\ new[1].value = s_input
             /\ new[1].tick = s_seen'.ticks
        /\ (tick /\ s_seen.sets > 0) => Len(new) = 1 ]_vars

\* The first tick came after the input had fired several times and made the
\* stream's only fire.
C19_Witness ==
  /\ s_seen.ticks = 1
  /\ s_seen.took = 2
  /\ Len(s_fired) = 1
  /\ s_fired[1].value = s_input

\* C20: once a DebounceStream has been destroyed no delay task of it is
\* pending (the one pending at the teardown has been cancelled), and no step
\* taken after the teardown adds a fire to its value_stream.
C20_NoFireAfterTeardown ==
  [][ /\ ~d_alive' => PendingTasks(d_debounce_task') = {}
      /\ ~d_alive => d_fired' = d_fired ]_vars

\* The stream was destroyed while its delay task was pending; the task was
\* cancelled and the time at which its sleep would have ended has passed.
C20_Witness ==
  /\ ~d_alive
  /\ \E i \in DOMAIN d_debounce_task.tasks :
       /\ d_debounce_task.tasks[i].state \in {"cancelled", "closed"}
       /\ d_debounce_task.tasks[i].due < d_now

\* C21: once a SampleStream has been destroyed its loop task is not pending
\* any more, and no step taken after the teardown is a tick of the loop or
\* adds a fire to value_stream, whatever the input does.
C21_NoTickAfterTeardown ==
  [][ /\ ~s_alive' => PendingTasks(s_sample_task') = {}
      /\ ~s_alive => (s_fired' = s_fired /\ s_seen'.ticks = s_seen.ticks) ]_vars

\* The stream was destroyed, its loop was cancelled in its sleep, the input
\* fired after the time that sleep would have ended, and time went on.
C21_Witness ==
  /\ ~s_alive
  /\ s_seen.set
  /\ \E i \in DOMAIN s_sample_task.tasks :
       /\ s_sample_task.tasks[i].state \in {"cancelled", "closed"}
       /\ s_sample_task.tasks[i].due < s_seen.set_at
       /\ s_seen.set_at < s_now

\* C22 as stated: close() does not return while the worker call of an
\* evaluation started before it is still executing the value function.
C22_CloseWaitsForWorker ==
  [][ (f_open /\ ~f_open') => Executing(f_tasks) = {} ]_vars

\* C23 as stated: after close() has returned no evaluation result is assigned
\* to value, whether the evaluation had started before close or its function
\* had only been handed to the event loop.
C23_NoResultAfterClose ==
  [][ ~f_open => f_landed' = f_landed ]_vars

\* The upstream has produced its last function and the event loop has handled
\* every arrival: the function of the newest task is the latest one.
UpstreamStopped ==
  /\ f_open
  /\ QueuedCalls = {}
  /\ Len(f_tasks) = MaxEvals

\* C24 as stated: once the upstream of an open FuncStreamValueModel has
\* stopped producing functions, value eventually equals the result of the
\* latest function (unless the model is closed first).
C24_LatestResultEventuallyLands ==
  UpstreamStopped ~> (~f_open \/ f_value = Result(f_tasks[Len(f_tasks)].func))

\* C25: a step in which the source stream fires object o (or None) makes o the
\* observed object, leaves a listener on o when o is present, and recomputes
\* the property from o (None when absent): it fires the recomputed value and
\* stores it exactly when the comparator reports it unequal to the held one,
\* and otherwise fires nothing and keeps the held one.  A property change of
\* an object that is not the observed one fires nothing and changes nothing.
C25_SourceChangeRebindsAndRecomputes ==
  [][ /\ \A o \in OptObjects, dropped \in BOOLEAN :
           PSetSource(o, dropped) =>
             LET attr == PCES_getattr(p_props, o) IN
               /\ p_object' = o
               /\ o # None => o \in p_listeners'
               /\ IF PCES_cmp(p_cmp, attr, p_value)
                  THEN p_fired' = <<>> /\ p_value' = p_value
                  ELSE p_fired' = <<attr>> /\ p_value' = attr
      /\ \A o \in Objects, key \in Keys, v \in OptValues :
           (PNotify(o, key, v) /\ o # p_object) =>
             (p_fired' = <<>> /\ p_value' = p_value) ]_vars

\* The source stream has just fired a second object whose property differs
\* from the value held before: the stream fired the new object's property,
\* and the first object's event still calls the dropped listener.
C25_Witness ==
  /\ p_op = "source"
  /\ p_object # None
  /\ p_listeners = Objects
  /\ p_fired = <<p_props[p_object]>>
  /\ p_value = p_props[p_object]

\* What C26 calls a change: exactly one of the two values is None, or both
\* are present and the comparator reports them unequal.
IsChange(cmp, old, value) ==
  \/ (old = None) # (value = None)
  \/ old # None /\ value # None /\ ~Cmp(cmp, value, old)

\* C26: an assignment to PropertyModel.value that is a change stores the
\* assigned value and notifies; one that is not a change leaves value as it
\* was and makes no notification and no callback.
C26_ChangeRule ==
  [][ \A v \in OptValues :
        CAssign(v) =>
          LET new == FiredSince(c_trace', Len(c_trace)) IN
            IF IsChange(c_cmp, c_value, v)
            THEN c_value' = v /\ new # <<>>
            ELSE c_value' = c_value /\ new = <<>> ]_vars

\* A value the tolerance comparator reports equal to None's stand-in was
\* assigned over None and counted as a change.
C26_Witness ==
  /\ c_nops > 0
  /\ c_cmp = "close"
  /\ c_old = None /\ c_assigned # None
  /\ Cmp(c_cmp, c_assigned, c_old)
  /\ c_value = c_assigned
  /\ c_trace # <<>>

\* C27: an assignment that changes PropertyModel.value writes the value,
\* then delivers the "value" notification with the new value already in
\* place, then calls on_value_changed, if set, once with the new value, and
\* does nothing else.
C27_StoreNotifyCallback ==
  [][ \A v \in OptValues :
        (CAssign(v) /\ c_value' # c_value) =>
          FiredSince(c_trace', Len(c_trace))
            = <<Event("store", v), Event("notify", v)>>
                \o (IF c_callback THEN <<Event("callback", v)>> ELSE <<>>) ]_vars

\* The latest assignment changed the value of a model with a callback set.
C27_Witness ==
  /\ c_callback
  /\ c_value = c_assigned /\ c_old # c_value
  /\ Len(c_trace) >= 3
  /\ SubSeq(c_trace, Len(c_trace) - 2, Len(c_trace))
       = <<Event("store", c_value), Event("notify", c_value),
           Event("callback", c_value)>>

\* The events of a log of takes, in the order they were taken.
Events(out) == [k \in 1..Len(out) |-> out[k].event]

\* C28: the reactor drops no event: the events taken off the queue so far,
\* followed by the events still queued, are exactly the ValueChanges the
\* stream has fired since the reactor was constructed, in fire order, so
\* successive next_value_change() calls return them in that order, each once.
C28_NoEventDropped ==
  Events(r_out) \o r_queue = FiredSince(r_stream.fired, r_built)

\* Two events were returned by next_value_change() while a third one waits.
C28_Witness ==
  /\ Len(r_out) >= 2
  /\ \A k \in 1..Len(r_out) : r_out[k].by = "next"
  /\ r_queue # <<>>
  /\ r_out[1].event # r_out[2].event

HoldsBegin(queue) == \E k \in 1..Len(queue) : queue[k].state = BEGIN

\* C29: begin() takes events off the queue and discards them, and returns
\* exactly when the event it took is a BEGIN; the next_value_change() that
\* follows returns the event fired right after that BEGIN; while the queue
\* holds no BEGIN begin() does not return, and once it holds one begin()
\* returns.
C29_BeginReturnsOnBegin ==
  /\ [][ /\ (r_at = "begin" /\ r_out' # r_out) =>
              /\ r_queue # <<>>
              /\ r_out' = Append(r_out, Taken("begin", Head(r_queue)))
              /\ r_queue' = Tail(r_queue)
              /\ (r_at' = "idle") <=> (Head(r_queue).state = BEGIN)
         /\ (r_at = "begin" /\ ~HoldsBegin(r_queue)) => r_at' = "begin" ]_vars
  /\ [](\A k \in 2..Len(r_out) :
          (r_out[k].by = "next" /\ r_out[k - 1].by = "begin") =>
            /\ r_out[k - 1].event.state = BEGIN
            /\ r_stream.fired[r_built + k - 1] = r_out[k - 1].event
            /\ r_stream.fired[r_built + k] = r_out[k].event)
  /\ (r_at = "begin" /\ HoldsBegin(r_queue)) ~> (r_at = "idle")

\* begin() discarded a CHANGE and an END, returned on the BEGIN behind them,
\* and next_value_change() returned the CHANGE fired after that BEGIN.
C29_Witness ==
  /\ Len(r_out) = 4
  /\ \A k \in 1..3 : r_out[k].by = "begin"
  /\ r_out[1].event.state = CHANGE /\ r_out[2].event.state = END
  /\ r_out[3].event.state = BEGIN
  /\ r_out[4] = Taken("next", r_stream.fired[r_built + 4])
  /\ r_out[4].event.state = CHANGE

\* C30 as stated: begin() on a ValueChangeStream that is already active
\* raises an assertion and fires nothing, so no second BEGIN is emitted
\* without an END between.
C30_BeginWhileActiveFailsFast ==
  [][ (VBegin /\ v_stream.is_active) =>
        (v_stream'.err /\ v_stream'.fired = v_stream.fired) ]_vars

\* C31: once a derived stream has been destroyed, an upstream fire that
\* reaches its still registered listener does nothing: the destroyed stream
\* fires nothing, none of its state changes (no task is scheduled that could
\* fire later) and the upstream fire raises no error.
C31_DeadListenerIsNoop ==
  [][ (~w_alive /\ w_sent' # w_sent) =>
        (w_fired' = w_fired /\ w_state' = w_state /\ ~w_err') ]_vars

\* The stream fired while alive, was destroyed with its listener left
\* registered, and the upstream has fired twice since.
C31_Witness ==
  /\ ~w_alive /\ w_listening
  /\ w_after >= 2
  /\ Len(w_fired) > w_built

\* C32 as stated: after an outermost assignment has returned, the value each
\* listener was delivered last is the value the stream holds, also when a
\* listener assigned to the stream during the delivery.
C32_LastDeliveredIsFinalValue ==
  \A l \in Listeners : e_got[l] # <<>> => Last(e_got[l]) = e_value

\* C33 as stated: to_hex_color raises NotImplementedError exactly for the
\* colors of unknown type; to_expanded_notation raises NotImplementedError
\* for named-color, transparent and unknown colors, ValueError for hex-color,
\* rgb and rgba colors that are not valid, and returns a Color otherwise.
C33_ConversionErrors ==
  LET type == Color_color_type(k_last.color)
      valid == Color_is_valid(k_last.color)
  IN /\ k_last.op = "to_hex_color" =>
          ((k_last.raised = "NotImplementedError") <=> (type = "unknown"))
     /\ k_last.op = "to_expanded_notation" =>
          IF type \in {"named-color", "transparent", "unknown"}
          THEN k_last.raised = "NotImplementedError"
          ELSE IF valid.raised = "none" /\ valid.value
          THEN k_last.raised = "none"
          ELSE k_last.raised = "ValueError"

\* C34 as stated, in the part that fails: while the DebounceStream is alive,
\* a value stashed by an upstream fire (early enough for its delay to end
\* before the clock stops) is eventually fired by the DebounceStream, unless
\* a later upstream fire replaces it first; this also for an upstream fire
\* that comes after the delay task has fired and before zero_task has run.
C34_StashEventuallyFired ==
  \A v \in Values :
    (d_alive /\ d_value_holder = v /\ d_now <= MaxTime - Period)
      ~> \/ ~d_alive
         \/ d_value_holder # v
         \/ (d_fired # <<>> /\ Last(d_fired).value = v)

\* C35: constructing a DebounceStream stashes the value the upstream holds
\* and schedules one delay task: as long as the upstream has not fired, the
\* stream has fired nothing before one period has passed and, while alive,
\* fires exactly once, at one period after construction, the value the
\* upstream held at construction.
C35_ConstructionFiresOnce ==
  LET first == <<[value |-> d_seen.init, at |-> Period]>> IN
    /\ [](~d_seen.changed =>
            /\ d_fired \in {<<>>, first}
            /\ d_debounce_task.tasks = <<[state |-> "pending", due |-> Period]>>
                 \/ d_fired = first \/ ~d_alive
            /\ (d_alive /\ d_now > Period) => d_fired = first)
    /\ (d_alive /\ ~d_seen.changed /\ d_fired = <<>>)
         ~> (~d_alive \/ d_seen.changed \/ d_fired = first)

\* With the upstream untouched the stream has fired its one value and the
\* clock has moved on.
C35_Witness ==
  /\ d_alive /\ ~d_seen.changed
  /\ d_now = MaxTime
  /\ d_fired = <<[value |-> d_seen.init, at |-> Period]>>
  /\ d_debounce_task.task = None

\* C36: after StreamValueModel.close() has returned, a fire of the upstream
\* changes neither the model's value nor the number of notifications it has
\* sent, and the model has made one remove_ref call for its one add_ref.
C36_ClosedModelIsDetached ==
  /\ [][ (~m_open /\ m_nfires' # m_nfires) =>
           (m_value' = m_value /\ m_notes' = m_notes) ]_vars
  /\ [](m_refs = [added |-> 1, removed |-> IF m_open THEN 0 ELSE 1])

\* The upstream has fired twice since close(), last a value the model does
\* not hold.
C36_Witness ==
  /\ ~m_open /\ m_after >= 2
  /\ m_kind = "ValueStream" /\ m_source # m_value
  /\ PropertyModel_not_equal(m_cmp, m_value, m_source)

\* C37: a live OptionalStream fires exactly once for every upstream fire,
\* equal fires in a row included: the upstream value when the predicate
\* accepts it and None otherwise; the constructor fires once the same way;
\* and its value property is None in every state.
C37_OptionalFiresEveryTime ==
  /\ [][ (w_kind = "optional" /\ w_alive /\ w_sent' # w_sent) =>
           w_fired' = Append(w_fired,
                             LET v == w_sent'[Len(w_sent')] IN
                               IF Pred(v) THEN v ELSE None) ]_vars
  /\ [](w_kind = "optional" =>
          /\ w_built = 1
          /\ w_alive => Len(w_fired) = 1 + Len(w_sent)
          /\ OptionalStream_value(w_fired) = None)

\* A live OptionalStream has fired None twice in a row for two rejected
\* upstream values and then an accepted value.
C37_Witness ==
  /\ w_kind = "optional" /\ w_alive
  /\ Len(w_fired) >= 4
  /\ \E i \in 2..(Len(w_fired) - 2) :
       /\ w_fired[i] = None /\ w_fired[i + 1] = None
       /\ w_fired[i + 2] # None

\* C38 as stated: every value the CombineLatestStream of the diamond has
\* fired since its construction pairs a value of A with MapFn of that value.
C38_DiamondSnapshotsConsistent ==
  \A i \in DOMAIN x_fired : x_fired[i][2] = MapFn(x_fired[i][1])

\* C39 as stated: the ValueChanges fired so far are a prefix of a word of
\* (BEGIN CHANGE* END)*: a BEGIN is the first fire or follows an END, and a
\* CHANGE or an END follows a BEGIN or a CHANGE.
C39_FiresFormSessions ==
  \A k \in DOMAIN v_stream.fired :
    LET state == v_stream.fired[k].state
        before == IF k = 1 THEN END ELSE v_stream.fired[k - 1].state
    IN IF state = BEGIN THEN before = END
       ELSE k > 1 /\ before \in {BEGIN, CHANGE}

\* C40 as stated: when a reactor whose consumer task was started with run()
\* and is still pending is finalized, cancel() is called on that task.
C40_FinalizeCancelsConsumer ==
  [][ \A i \in Reactors :
        (/\ l_reactors[i].alive /\ ~l_reactors'[i].alive
         /\ l_reactors[i].task # None
         /\ l_tasks[l_reactors[i].task].state = "pending")
        => l_tasks'[l_reactors[i].task].state = "cancelling" ]_vars

====
